---- MODULE Spec2Model ----
(***************************************************************************)
(* NoxKit: reactive store (src/src/state.rs), view nodes and widgets       *)
(* (src/src/view.rs, src/src/widgets.rs) and the frame driver              *)
(* (src/src/app.rs).                                                       *)
(*                                                                         *)
(* SignalSpec : one Signal<T> with listeners and memos, driven by client   *)
(*              calls of get / update / subscribe / create_memo.           *)
(* WidgetSpec : the widget tree driven directly through the View trait.    *)
(* Spec       : the widget tree driven by the frame driver App.            *)
(* FrameSpec  : the frame driver in a session without mouse buttons: the   *)
(*              frames it draws on RedrawRequested, and the loop's exit.   *)
(* DriverSpec : the frame driver under every platform callback that        *)
(*              reaches the view tree.                                     *)
(* GeomSpec   : Geometry::contains applied to geometries and points.       *)
(* PassSpec   : the widget tree driven directly through all four passes of  *)
(*              the View trait.                                            *)
(* TextSpec   : one Text node driven directly: layout, text change,        *)
(*              prepare.                                                   *)
(* QueueSpec  : one RenderQueue driven by push_* / clear calls and by the  *)
(*              frame driver's batch upload.                               *)
(* ShapeSpec  : Rect, Circle and RoundedRect driven directly: layout,      *)
(*              prepare, handle_event.                                     *)
(* ReactSpec  : the frame driver next to a client that updates a Signal.   *)
(* ReentrySpec : two Signals whose listeners may subscribe listeners.       *)
(* ComputedSpec : one Signal and the Computed values made from it by       *)
(*              create_computed.                                           *)
(* ChainSpec  : two Signals whose listeners may update a Signal; ChainLive *)
(*              adds that a running notification takes its next turn.      *)
(***************************************************************************)
EXTENDS Integers, Sequences, FiniteSets, TLC

\* ------------------------------------------------------------------ bounds
\* T of Signal<T> is modelled by the integers 0..MaxVal with wrapping mutators.
MaxVal == 2
\* update calls per signal in one behaviour
MaxUpdates == 3
\* subscribe / create_memo calls in one behaviour
MaxSubs == 3

\* pointer coordinates and window sizes range over 0..MaxCoord on both axes
MaxCoord == 1
\* update_layout calls in one behaviour
MaxLayouts == 2
\* runs of one button's on_click in one behaviour
MaxClicks == 2
\* push_* calls on the render queue between two clear() calls
MaxPushes == 16386
\* prepare calls on one Text node in one behaviour
MaxPrepares == 3
\* nested update() calls the thread's stack has room for
MaxDepth == 4
\* create_computed calls in one behaviour
MaxCells == 2

Vals == 0..MaxVal
NumVals == MaxVal + 1

\* The mutator closures a client hands to Signal::update (FnOnce(&mut T)).
Mutators == {"inc", "dbl"}
\* The derive closures a client hands to create_memo (Fn(S) -> T).
Derives == {"succ", "twice"}

VARIABLES
    \* --- reactive store (state.rs)
    value,      \* signal -> current value            (Signal.value)
    listeners,  \* signal -> sequence of listeners    (Signal.listeners)
    memoVal,    \* memo id -> derived value           (Computed.value)
    stack,      \* active notify() calls, innermost last
    panicked,   \* a Rust panic has aborted the program
    \* --- history of the client's calls and of what the listeners observed
    initial,    \* signal -> value given to Signal::new
    hist,       \* signal -> mutators given to update, in call order
    subscribed, \* signal -> ids handed to subscribe so far, in call order
    cur,        \* the latest update call: its signal and what was subscribed then
    fired,      \* listener invocations of the latest update: <<id, value seen,
                \* memo values seen>>
    got,        \* the latest client get(): result and number of updates before it
    computed,   \* the Computed values made by create_computed, in creation order:
                \* the closure, the signal it reads, the cell, the updates of
                \* the signal before creation
    cgot,       \* the latest client get() on a Computed: which, the result and
                \* the updates of its signal before the call
    \* --- widgets (widgets.rs) and layout engine (layout.rs)
    node_id,    \* widget -> its layout handle, 0 for None     (node_id: Option<NodeId>)
    taffy,      \* layout handle -> box computed by the engine (LayoutContext.taffy)
    hovered,    \* button -> hovered                           (Button.hovered)
    pressed,    \* button -> pressed                           (Button.pressed)
    clicks,     \* button -> number of runs of its on_click    (Button.on_click)
    \* --- frame driver (app.rs)
    appState,   \* "Idle" or "Running"                         (App.state)
    dirty,      \* App.dirty
    cursor_pos, \* AppState::Running.cursor_pos
    root_node,  \* AppState::Running.root_node, 0 for None
    winSize,    \* window.inner_size()
    redraw_requested, \* window.request_redraw() has been called
    \* --- history of the latest call into the view tree
    lastInput,  \* which platform callback or harness call ran last
    dispatched, \* the events the frame driver handed to the root view in its
                \* latest callback, in order
    invoked,    \* the buttons whose on_click ran in that call, in order
    pre,        \* hovered and pressed before the harness's latest handle_event
    hit,        \* the buttons whose bounds held the point of that event
    pressInside,  \* the buttons whose bounds held the point of the latest press
    sincePress,   \* button -> runs of its on_click since the latest press began
    insideClicks, \* button -> MouseClick events received with the point in bounds
    \* --- a Geometry value and the latest contains() call on it (view.rs)
    geom,       \* Geometry { x, y, width, height }
    probe,      \* the point asked about and the answer
    \* --- render queue (render.rs) and what the frame driver uploads from it
    render_queue, \* RenderContext.render_queue: the two Vec lengths and the entries
                  \* of the latest push (extend_from_slice never rewrites an entry
                  \* below the old length)
    pushed,     \* push_* calls since the latest clear()
    submitted,  \* the latest batch upload: vertices and indices written, indices drawn
    \* --- Text (widgets.rs)
    text,       \* text node -> Text.text
    last_text,  \* text node -> Text.last_text, <<>> for None and <<s>> for Some(s)
    buffer,     \* text node -> Text.buffer is Some
    \* --- history of the passes
    drawn,      \* the primitives the widgets pushed for themselves in the latest
                \* prepare pass: who pushed, and the queue entries of the push
    visits,     \* the nodes the harness's latest pass entered, in order, each with
                \* the geometry it was handed and the geometry it worked with
    text_areas, \* the text areas of the latest collect_text_areas pass
    prepLog,    \* the text of the Text node at each of its prepare calls, in order
    shapeLog,   \* the text of each shape operation on the Text node, in order
    frames,     \* frames the frame driver has completed: 0, 1, or 2 for two or more
    \* --- Rect, Circle, RoundedRect (widgets.rs)
    shapes,     \* shape widget -> its node_id (0 for None), color and radius
    \* --- lifecycle hooks (view.rs) and the event loop (app.rs)
    hooked,     \* the <<hook, node>> calls made while the frame driver's latest
                \* lifecycle delivery ran through the view tree, in call order
    control,    \* the event loop: "Wait", "Exit" once event_loop.exit() was called,
                \* "Exited" once exiting() has run
    lifecycle,  \* the hooks the frame driver delivered to the root view, in order,
                \* a run of consecutive on_update calls written once
    resizes,    \* the Resized events the frame driver accepted (non-zero size)
    frame_passes \* the steps of the latest frame RedrawRequested ran, in order

cellVars == <<computed, cgot>>
storeVars == <<value, listeners, memoVal, stack,
               initial, hist, subscribed, cur, fired, got, cellVars>>
widgetVars == <<node_id, taffy, hovered, pressed, clicks>>
appVars == <<appState, dirty, cursor_pos, root_node, winSize, redraw_requested>>
histVars == <<lastInput, dispatched, invoked, pre, hit, pressInside, sincePress, insideClicks>>
geomVars == <<geom, probe>>
queueVars == <<render_queue, pushed, submitted>>
textVars == <<text, last_text, buffer>>
passVars == <<drawn, visits, text_areas, prepLog, shapeLog>>
shapeVars == <<shapes>>
hookVars == <<hooked>>
lifeVars == <<control, lifecycle, resizes, frame_passes>>
auxVars == <<shapeVars, hookVars, lifeVars>>
paintVars == <<geomVars, queueVars, textVars, passVars, frames, shapeVars>>
drawVars == <<paintVars, hookVars, lifeVars>>
viewVars == <<widgetVars, appVars, histVars, drawVars>>

vars == <<storeVars, panicked, viewVars>>

\* ------------------------------------------------------------ state.rs
Apply(f, v) ==
    CASE f = "inc" -> (v + 1) % NumVals
      [] f = "dbl" -> (2 * v) % NumVals

Derive(d, v) ==
    CASE d = "succ"  -> (v + 1) % NumVals
      [] d = "twice" -> (2 * v) % NumVals

NoCall == [n |-> 0, v |-> 0, sig |-> "none"]
NoUpdate == [sig |-> "none", subs |-> <<>>]
NoCellCall == [cell |-> 0, v |-> 0, n |-> 0]

\* RefCell: value.borrow() panics while an enclosing call holds value.borrow_mut().
ValueMutBorrowed(stk, s) ==
    \E i \in 1..Len(stk) : stk[i].sig = s /\ stk[i].vmut

\* Signal::get : self.value.borrow().clone()
GetPanics(stk, s) == ValueMutBorrowed(stk, s)
GetClone(val, s) == val[s]
GetLeaves(val, s) == val

\* Signal::update, the block { let mut value = borrow_mut(); f(&mut *value); }
CommitToCopy(val, s, f) == val
Commit(val, s, f) == [val EXCEPT ![s] = Apply(f, @)]

\* Signal::update: the RefMut is dropped at the end of the block, then notify()
\* borrows the listener list and starts at its first element.
NotifyFrameHeld(s) == [sig |-> s, idx |-> 1, vmut |-> TRUE]
NotifyFrame(s) == [sig |-> s, idx |-> 1, vmut |-> FALSE]

\* Signal::subscribe : listeners.borrow_mut().push(Box::new(f))
PushFront(ls, l) == <<l>> \o ls
Push(ls, l) == Append(ls, l)

\* the closure create_memo subscribes: *val = f(dep.get())
MemoStale(cell, d, val, s) == cell
MemoRecomputeFromCell(cell, d, val, s) == Derive(d, cell)
MemoRecompute(cell, d, val, s) == Derive(d, GetClone(val, s))

NumListeners ==
    LET RECURSIVE Sum(_)
        Sum(S) == IF S = {} THEN 0
                  ELSE LET x == CHOOSE y \in S : TRUE
                       IN  Len(listeners[x]) + Sum(S \ {x})
    IN  Sum(DOMAIN listeners)

NextId == NumListeners + 1

Idle == stack = <<>> /\ ~panicked

\* client: signal.get()
SigGet(s) ==
    /\ Idle
    /\ IF GetPanics(stack, s)
       THEN /\ panicked' = TRUE
            /\ UNCHANGED <<value, got>>
       ELSE /\ got' = [n |-> Len(hist[s]), v |-> GetClone(value, s), sig |-> s]
            /\ value' = GetLeaves(value, s)
            /\ UNCHANGED panicked
    /\ UNCHANGED <<listeners, memoVal, stack, initial, hist, subscribed, cur, fired>>
    /\ UNCHANGED <<cellVars, viewVars>>

\* client: signal.update(f) up to the call of the first listener
SigUpdateMarksDirty(s, f) ==
    /\ Idle
    /\ Len(hist[s]) < MaxUpdates
    /\ value' = Commit(value, s, f)
    /\ stack' = Append(stack, NotifyFrame(s))
    /\ hist' = [hist EXCEPT ![s] = Append(@, f)]
    /\ cur' = [sig |-> s, subs |-> subscribed[s]]
    /\ fired' = <<>>
    /\ dirty' = TRUE
    /\ UNCHANGED <<listeners, memoVal, panicked, initial, subscribed, got>>
    /\ UNCHANGED <<cellVars, widgetVars, appState, cursor_pos, root_node, winSize,
                   redraw_requested, histVars, drawVars>>
SigUpdate(s, f) ==
    /\ Idle
    /\ Len(hist[s]) < MaxUpdates
    /\ value' = Commit(value, s, f)
    /\ stack' = Append(stack, NotifyFrame(s))
    /\ hist' = [hist EXCEPT ![s] = Append(@, f)]
    /\ cur' = [sig |-> s, subs |-> subscribed[s]]
    /\ fired' = <<>>
    /\ UNCHANGED <<listeners, memoVal, panicked, initial, subscribed, got>>
    /\ UNCHANGED <<cellVars, viewVars>>

\* client: signal.subscribe(|| { ... signal.get() ... })
SigSubscribe(s) ==
    /\ Idle
    /\ NumListeners < MaxSubs
    /\ listeners' = [listeners EXCEPT
                       ![s] = Push(@, [id |-> NextId, kind |-> "obs", fn |-> "none"])]
    /\ subscribed' = [subscribed EXCEPT ![s] = Append(@, NextId)]
    /\ UNCHANGED <<value, memoVal, stack, panicked, initial, hist, cur, fired, got>>
    /\ UNCHANGED <<cellVars, viewVars>>

\* client: create_memo(&signal, d)
CreateMemo(s, d) ==
    /\ Idle
    /\ NumListeners < MaxSubs
    /\ IF GetPanics(stack, s)
       THEN /\ panicked' = TRUE
            /\ UNCHANGED <<memoVal, listeners, subscribed>>
       ELSE /\ memoVal' = [i \in DOMAIN memoVal \cup {NextId} |->
                             IF i = NextId THEN Derive(d, GetClone(value, s))
                                           ELSE memoVal[i]]
            /\ listeners' = [listeners EXCEPT
                               ![s] = Push(@, [id |-> NextId, kind |-> "memo", fn |-> d])]
            /\ subscribed' = [subscribed EXCEPT ![s] = Append(@, NextId)]
            /\ UNCHANGED panicked
    /\ UNCHANGED <<value, stack, initial, hist, cur, fired, got>>
    /\ UNCHANGED <<cellVars, viewVars>>

\* client: a.subscribe(move || b.update(f)), a listener of s that updates t
SubscribeUpdater(s, t, f) ==
    /\ Idle
    /\ NumListeners < MaxSubs
    /\ listeners' = [listeners EXCEPT
                       ![s] = Push(@, [id |-> NextId, kind |-> "upd", fn |-> f,
                                       to |-> t])]
    /\ subscribed' = [subscribed EXCEPT ![s] = Append(@, NextId)]
    /\ UNCHANGED <<value, memoVal, stack, panicked, initial, hist, cur, fired, got>>
    /\ UNCHANGED <<cellVars, viewVars>>

\* client: create_computed(move || d(signal.get())): Computed::new evaluates the
\* closure once and keeps the result in a cell of its own
CreateComputedSubscribes(s, d) ==
    /\ Idle
    /\ Len(computed) < MaxCells
    /\ computed' = Append(computed, [fn |-> d, sig |-> s,
                                     val |-> Derive(d, GetClone(value, s)),
                                     made |-> Len(hist[s])])
    /\ listeners' = [listeners EXCEPT
                       ![s] = Push(@, [id |-> NextId, kind |-> "obs", fn |-> "none"])]
    /\ UNCHANGED <<value, memoVal, stack, panicked, initial, hist, subscribed, cur,
                   fired, got, cgot>>
    /\ UNCHANGED viewVars
CreateComputed(s, d) ==
    /\ Idle
    /\ Len(computed) < MaxCells
    /\ IF GetPanics(stack, s)
       THEN /\ panicked' = TRUE
            /\ UNCHANGED computed
       ELSE /\ computed' = Append(computed, [fn |-> d, sig |-> s,
                                            val |-> Derive(d, GetClone(value, s)),
                                            made |-> Len(hist[s])])
            /\ UNCHANGED panicked
    /\ UNCHANGED <<value, listeners, memoVal, stack, initial, hist, subscribed, cur,
                   fired, got, cgot>>
    /\ UNCHANGED viewVars

\* Computed::get : self.value.borrow().clone()
ComputedGet(c) == c.val

\* client: computed.get()
CellGet(i) ==
    /\ Idle
    /\ i \in 1..Len(computed)
    /\ cgot' = [cell |-> i, v |-> ComputedGet(computed[i]),
                n |-> Len(hist[computed[i].sig])]
    /\ UNCHANGED <<value, listeners, memoVal, stack, panicked, initial, hist,
                   subscribed, cur, fired, got, computed>>
    /\ UNCHANGED viewVars

\* client: a.subscribe(move || t.subscribe(|| { .. })), a listener of s that
\* subscribes a listener to t
SubscribeSubscriber(s, t) ==
    /\ Idle
    /\ NumListeners < MaxSubs
    /\ listeners' = [listeners EXCEPT
                       ![s] = Push(@, [id |-> NextId, kind |-> "sub", fn |-> "none",
                                       to |-> t])]
    /\ subscribed' = [subscribed EXCEPT ![s] = Append(@, NextId)]
    /\ UNCHANGED <<value, memoVal, stack, panicked, initial, hist, cur, fired, got>>
    /\ UNCHANGED <<cellVars, viewVars>>

\* RefCell: listeners.borrow_mut() panics while a notify() of the signal holds
\* listeners.borrow(), which it does for the whole of its for loop.
ListenersBorrowedNever(stk, t) == FALSE
ListenersBorrowed(stk, t) == \E i \in 1..Len(stk) : stk[i].sig = t

\* a listener calls t.update(f): the call runs inside the listener, above the
\* notify() that invoked it, and that notify() goes on when it has returned
NestedNotifyDropped(below, caller, t) == Append(below, caller)
NestedNotifyDeferred(below, caller, t) == <<NotifyFrame(t)>> \o Append(below, caller)
NestedNotify(below, caller, t) == Append(Append(below, caller), NotifyFrame(t))

\* Signal::notify: one turn of `for listener in self.listeners.borrow().iter()`
\* of the innermost notify(); past the last listener notify() and update() return.
\* A listener that calls update starts that update's notify() above this one.
\* Each nested call takes stack; MaxDepth calls exhaust it and the process
\* aborts. A listener that calls subscribe on a signal whose notify() is running
\* panics in listeners.borrow_mut().
NotifyStep ==
    /\ stack # <<>>
    /\ ~panicked
    /\ LET top == stack[Len(stack)]
           s   == top.sig
           rest == SubSeq(stack, 1, Len(stack) - 1)
       IN  IF top.idx > Len(listeners[s])
           THEN /\ stack' = rest
                /\ UNCHANGED <<memoVal, panicked, fired, value, hist, listeners,
                               subscribed>>
           ELSE LET l == listeners[s][top.idx]
                IN  IF GetPanics(stack, s)
                    THEN /\ panicked' = TRUE
                         /\ UNCHANGED <<memoVal, stack, fired, value, hist, listeners,
                                        subscribed>>
                    ELSE IF l.kind = "sub"
                    THEN IF ListenersBorrowed(stack, l.to)
                         THEN /\ panicked' = TRUE
                              /\ UNCHANGED <<memoVal, stack, fired, value, hist,
                                             listeners, subscribed>>
                         ELSE /\ NumListeners < MaxSubs
                              /\ fired' = Append(fired, <<l.id, GetClone(value, s), memoVal>>)
                              /\ listeners' =
                                   [listeners EXCEPT
                                      ![l.to] = Push(@, [id |-> NextId, kind |-> "obs",
                                                         fn |-> "none"])]
                              /\ subscribed' = [subscribed EXCEPT
                                                  ![l.to] = Append(@, NextId)]
                              /\ stack' = Append(rest, [top EXCEPT !.idx = @ + 1])
                              /\ UNCHANGED <<memoVal, panicked, value, hist>>
                    ELSE IF l.kind = "upd"
                    THEN IF ValueMutBorrowed(stack, l.to) \/ Len(stack) >= MaxDepth
                         THEN /\ panicked' = TRUE
                              /\ UNCHANGED <<memoVal, stack, fired, value, hist,
                                             listeners, subscribed>>
                         ELSE /\ fired' = Append(fired, <<l.id, GetClone(value, s), memoVal>>)
                              /\ value' = Commit(value, l.to, l.fn)
                              /\ hist' = [hist EXCEPT ![l.to] = Append(@, l.fn)]
                              /\ stack' = NestedNotify(rest, [top EXCEPT !.idx = @ + 1],
                                                       l.to)
                              /\ UNCHANGED <<memoVal, panicked, listeners, subscribed>>
                    ELSE /\ fired' = Append(fired, <<l.id, GetClone(value, s), memoVal>>)
                         /\ memoVal' =
                              IF l.kind = "memo"
                              THEN [memoVal EXCEPT
                                      ![l.id] = MemoRecompute(@, l.fn, value, s)]
                              ELSE memoVal
                         /\ stack' = Append(rest, [top EXCEPT !.idx = @ + 1])
                         /\ UNCHANGED <<panicked, value, hist, listeners, subscribed>>
    /\ UNCHANGED <<initial, cur, got>>
    /\ UNCHANGED <<cellVars, viewVars>>


\* ----------------------------------------------------------- render.rs
\* `as u16` keeps the low 16 bits
AsU16Saturating(n) == IF n >= 2 ^ 16 THEN 2 ^ 16 - 1 ELSE n
AsU16(n) == n % (2 ^ 16)

\* struct Vertex
Vertex(position, color, rect_pos, rect_size, corner_radius, shape_type) ==
    [position |-> position, color |-> color, rect_pos |-> rect_pos,
     rect_size |-> rect_size, corner_radius |-> corner_radius,
     shape_type |-> shape_type]

\* the lengths of the batch vertex and index buffers (app.rs, the batch upload)
VertexBufferLen == 16384
IndexBufferLen == 24576

Min(a, b) == IF a <= b THEN a ELSE b

\* RenderQueue::new. The two lists are kept as their lengths, the entries of the
\* latest push, and head_max: the largest of the first IndexBufferLen entries of
\* indices (-1 when there is none), the part of the list the batch upload reads.
RenderQueueNew ==
    [vertices_len |-> 0, indices_len |-> 0,
     vertices_tail |-> <<>>, indices_tail |-> <<>>, overflow |-> FALSE,
     head_max |-> -1]

\* the largest of the entries of six new indices that fall among the first
\* IndexBufferLen of the list, or of max if that is larger
RECURSIVE HeadMax(_, _, _, _)
HeadMax(max, len, six, i) ==
    IF i > 6 \/ len + i > IndexBufferLen THEN max
    ELSE HeadMax(IF six[i] > max THEN six[i] ELSE max, len, six, i + 1)

\* RenderQueue::push_raw. overflow: one of the u16 additions left the 16-bit range
\* (a panic in a build with overflow checks, a wrapped index without them).
PushRaw(q, geometry, color, radius, shape) ==
    LET x == geometry.x
        y == geometry.y
        w == geometry.w
        h == geometry.h
        start_index == AsU16(q.vertices_len)
        rect_pos == <<x, y>>
        rect_size == <<w, h>>
        sums == <<start_index, start_index + 1, start_index + 2,
                  start_index + 2, start_index + 1, start_index + 3>>
    IN  [vertices_len  |-> q.vertices_len + 4,
         indices_len   |-> q.indices_len + 6,
         vertices_tail |->
            << Vertex(<<x, y>>, color, rect_pos, rect_size, radius, shape),
               Vertex(<<x + w, y>>, color, rect_pos, rect_size, radius, shape),
               Vertex(<<x, y + h>>, color, rect_pos, rect_size, radius, shape),
               Vertex(<<x + w, y + h>>, color, rect_pos, rect_size, radius, shape) >>,
         indices_tail  |-> [i \in 1..6 |-> AsU16(sums[i])],
         overflow      |-> \E i \in 1..6 : sums[i] >= 2 ^ 16,
         head_max      |-> HeadMax(q.head_max, q.indices_len,
                                   [i \in 1..6 |-> AsU16(sums[i])], 1)]

\* RenderQueue::push_rect, push_rounded_rect, push_circle
PushRect(q, geometry, color) == PushRaw(q, geometry, color, 0, 0)
PushRoundedRect(q, geometry, color, radius) == PushRaw(q, geometry, color, radius, 1)
PushCircleSelectorOne(q, geometry, color) == PushRaw(q, geometry, color, 0, 1)
PushCircle(q, geometry, color) == PushRaw(q, geometry, color, 0, 2)

\* RenderQueue::clear
ClearNothing(q) == q
Clear(q) == RenderQueueNew

\* ------------------------------------------------- view.rs, widgets.rs
\* The view tree: Column { Button, Button }, each Button owning its Text label.
Root == 1
Widgets == 1..5
Buttons == {2, 4}
Kind(w) ==
    CASE w = 1       -> "Column"
      [] w \in {2, 4} -> "Button"
      [] w \in {3, 5} -> "Text"
\* Column.children
Children(w) == IF w = 1 THEN <<2, 4>> ELSE <<>>
\* Button.text_view
TextView(b) == b + 1

Coords == 0..MaxCoord
Box(x, y, w, h) == [x |-> x, y |-> y, w |-> w, h |-> h]

\* Geometry::contains
ContainsExclusive(g, px, py) ==
    px >= g.x /\ px < g.x + g.w /\ py >= g.y /\ py < g.y + g.h
Contains(g, px, py) ==
    px >= g.x /\ px <= g.x + g.w /\ py >= g.y /\ py <= g.y + g.h

\* Event
Ev(k, x, y) == [kind |-> k, x |-> x, y |-> y]
EventKinds == {"MouseClick", "MouseMove", "MouseDown", "MouseUp"}
Events == {Ev(k, x, y) : k \in EventKinds, x \in Coords, y \in Coords}

\* What the layout engine may answer to compute_layout: a box, relative to the
\* parent, for every node of the tree (separate buttons; overlapping buttons in an
\* offset column).
LayoutResults ==
    { [w \in Widgets |->
         CASE w = 1 -> Box(0, 0, 1, 1)
           [] w = 2 -> Box(0, 0, 0, 1)
           [] w = 4 -> Box(1, 0, 0, 0)
           [] OTHER -> Box(0, 0, 0, 0)],
      [w \in Widgets |->
         CASE w = 1 -> Box(0, 1, 1, 0)
           [] w = 2 -> Box(0, 0, 1, 0)
           [] w = 4 -> Box(1, 0, 0, 0)
           [] OTHER -> Box(0, 0, 0, 0)] }

\* taffy.new_leaf / taffy.new_with_children followed by self.node_id = Some(node):
\* the engine hands out a fresh handle, its layout zero until computed.
NewNode(w, st) ==
    [node_id |-> [st.node_id EXCEPT ![w] = Len(st.taffy) + 1],
     taffy   |-> Append(st.taffy, Box(0, 0, 0, 0))]

\* View::layout of Column, Button and Text: children first, then the node itself.
LayoutRootOnly(w, st) == NewNode(w, st)
RECURSIVE LayoutNode(_, _)
LayoutNode(w, st) ==
    LET RECURSIVE LayoutAll(_, _)
        LayoutAll(ws, t) ==
            IF ws = <<>> THEN t ELSE LayoutAll(Tail(ws), LayoutNode(Head(ws), t))
    IN  CASE Kind(w) = "Column" -> NewNode(w, LayoutAll(Children(w), st))
          [] Kind(w) = "Button" -> NewNode(w, LayoutNode(TextView(w), st))
          [] Kind(w) = "Text"   -> NewNode(w, st)

\* App::update_layout: view.layout(ctx), then compute_layout(root, size) gives every
\* node under the new root its box.
UpdateLayout(lay) ==
    LET st == LayoutNode(Root, [node_id |-> node_id, taffy |-> taffy])
    IN  [node_id |-> st.node_id,
         taffy   |-> [n \in 1..Len(st.taffy) |->
                        IF \E w \in Widgets : st.node_id[w] = n
                        THEN lay[CHOOSE w \in Widgets : st.node_id[w] = n]
                        ELSE st.taffy[n]],
         root    |-> st.node_id[Root]]

\* The geometry resolution that opens prepare, collect_text_areas and handle_event:
\* parent origin + the engine's box of this node.
NodeGeometry(w, geometry) ==
    LET node_layout == taffy[node_id[w]]
    IN  [x |-> geometry.x + node_layout.x,
         y |-> geometry.y + node_layout.y,
         w |-> node_layout.w,
         h |-> node_layout.h]

\* The state a pass over the tree works on.
Pass ==
    [hovered |-> hovered, pressed |-> pressed, clicks |-> clicks,
     invoked |-> <<>>, seen |-> <<>>, visits |-> <<>>, panic |-> FALSE]

\* a node entered by a pass: the geometry argument and the geometry it works with
Visited(ws, w, pass, geometry, my_geo) ==
    [ws EXCEPT !.visits = Append(@, [node |-> w, pass |-> pass,
                                     handed |-> geometry, used |-> my_geo])]

\* (self.on_click)()
OnClick(b, ws) ==
    [ws EXCEPT !.clicks[b] = @ + 1, !.invoked = Append(@, b)]

\* Button::handle_event, Event::MouseClick
ButtonMouseClickIfPressed(b, ev, my_geo, ws) ==
    IF Contains(my_geo, ev.x, ev.y) /\ ws.pressed[b] THEN OnClick(b, ws) ELSE ws
ButtonMouseClick(b, ev, my_geo, ws) ==
    IF Contains(my_geo, ev.x, ev.y) THEN OnClick(b, ws) ELSE ws

\* Button::handle_event, Event::MouseMove
ButtonMouseMoveEnterOnly(b, ev, my_geo, ws) ==
    IF Contains(my_geo, ev.x, ev.y) THEN [ws EXCEPT !.hovered[b] = TRUE] ELSE ws
ButtonMouseMove(b, ev, my_geo, ws) ==
    [ws EXCEPT !.hovered[b] = Contains(my_geo, ev.x, ev.y)]

\* Button::handle_event, Event::MouseDown
ButtonMouseDownAssign(b, ev, my_geo, ws) ==
    [ws EXCEPT !.pressed[b] = Contains(my_geo, ev.x, ev.y)]
ButtonMouseDown(b, ev, my_geo, ws) ==
    IF Contains(my_geo, ev.x, ev.y) THEN [ws EXCEPT !.pressed[b] = TRUE] ELSE ws

\* Button::handle_event, Event::MouseUp
ButtonMouseUpInside(b, ev, my_geo, ws) ==
    IF Contains(my_geo, ev.x, ev.y) THEN [ws EXCEPT !.pressed[b] = FALSE] ELSE ws
ButtonMouseUpToggle(b, ev, my_geo, ws) ==
    [ws EXCEPT !.pressed[b] = ~@]
ButtonMouseUp(b, ev, my_geo, ws) ==
    [ws EXCEPT !.pressed[b] = FALSE]

\* Button::handle_event: node_id.unwrap() panics on None
ButtonHandleEventUnlaid(b, ev, geometry, ws) ==
    LET my_geo == IF node_id[b] = 0 THEN geometry ELSE NodeGeometry(b, geometry)
        vs == Visited(ws, b, "handle_event", geometry, my_geo)
    IN  CASE ev.kind = "MouseClick" -> ButtonMouseClick(b, ev, my_geo, vs)
          [] ev.kind = "MouseMove"  -> ButtonMouseMove(b, ev, my_geo, vs)
          [] ev.kind = "MouseDown"  -> ButtonMouseDown(b, ev, my_geo, vs)
          [] ev.kind = "MouseUp"    -> ButtonMouseUp(b, ev, my_geo, vs)
ButtonHandleEvent(b, ev, geometry, ws) ==
    IF node_id[b] = 0
    THEN [ws EXCEPT !.panic = TRUE]
    ELSE LET my_geo == NodeGeometry(b, geometry)
             vs == Visited(ws, b, "handle_event", geometry, my_geo)
         IN  CASE ev.kind = "MouseClick" -> ButtonMouseClick(b, ev, my_geo, vs)
               [] ev.kind = "MouseMove"  -> ButtonMouseMove(b, ev, my_geo, vs)
               [] ev.kind = "MouseDown"  -> ButtonMouseDown(b, ev, my_geo, vs)
               [] ev.kind = "MouseUp"    -> ButtonMouseUp(b, ev, my_geo, vs)

\* Column::handle_event, `for child in self.children.iter_mut()`
\* Lifecycle hooks. Column::on_init (and on_mount, on_update, on_unmount) calls
\* the hook of each child in order; Button's calls the hook of its text_view;
\* Text keeps the empty default of the trait.
HookChildrenColumnOnly(w) == IF Kind(w) = "Column" THEN Children(w) ELSE <<>>
HookChildren(w) ==
    CASE Kind(w) = "Column" -> Children(w)
      [] Kind(w) = "Button" -> <<TextView(w)>>
      [] Kind(w) = "Text"   -> <<>>

\* view.on_init() and the like on node w: the calls it makes, appended to log
RECURSIVE OnHook(_, _, _)
OnHook(w, hook, log) ==
    LET RECURSIVE Forward(_, _)
        Forward(cs, acc) ==
            IF cs = <<>> THEN acc
            ELSE Forward(Tail(cs), OnHook(Head(cs), hook, acc))
    IN  Forward(HookChildren(w), Append(log, <<hook, w>>))

EventChildrenFirstOnly(w) == SubSeq(Children(w), 1, 1)
EventChildren(w) == Children(w)

\* View::handle_event by widget kind. Column::handle_event hands the event to every
\* child in order with its own resolved geometry; Text::handle_event does nothing.
RECURSIVE HandleEvent(_, _, _, _)
HandleEvent(w, ev, geometry, ws) ==
    LET RECURSIVE Forward(_, _, _)
        Forward(kids, my_geo, t) ==
            IF kids = <<>> \/ t.panic THEN t
            ELSE Forward(Tail(kids), my_geo, HandleEvent(Head(kids), ev, my_geo, t))
    IN  CASE Kind(w) = "Column" ->
                IF node_id[w] = 0
                THEN [ws EXCEPT !.panic = TRUE]
                ELSE Forward(EventChildren(w), NodeGeometry(w, geometry),
                             Visited(ws, w, "handle_event", geometry,
                                     NodeGeometry(w, geometry)))
          [] Kind(w) = "Button" -> ButtonHandleEvent(w, ev, geometry, ws)
          [] Kind(w) = "Text"   -> ws

\* self.view.handle_event(&ev, &layout_ctx, root_geometry) for each event of evs in
\* turn; a panic ends the program where it happens.
RECURSIVE ViewHandleEvents(_, _, _)
ViewHandleEvents(evs, geometry, ws) ==
    IF evs = <<>> \/ ws.panic THEN ws
    ELSE ViewHandleEvents(Tail(evs), geometry,
             HandleEvent(Root, Head(evs), geometry,
                         [ws EXCEPT !.seen = Append(@, Head(evs))]))

\* ---- the prepare pass
\* RenderContext::new sets debug: true
Debug == TRUE

Texts == {3, 5}
TextValues == {"a", "b"}

\* colours [r, g, b, a], in thousandths
ButtonIdleColor == <<247, 317, 709, 1000>>
ButtonPressedColor == <<188, 247, 623, 1000>>
ButtonHoveredColor == <<301, 380, 780, 1000>>
ButtonRadius == 8
ColumnOutline == <<1000, 0, 0, 1000>>
TextOutline == <<0, 1000, 0, 1000>>
ButtonOutline == <<1000, 1000, 0, 1000>>

\* The state a prepare pass works on: the render queue and the Text caches it
\* changes, what it pushed and shaped, and whether it panicked.
PrepareStart(q) ==
    [queue |-> q, last_text |-> last_text, buffer |-> buffer,
     shapes |-> <<>>, drawn |-> <<>>, visits |-> <<>>, npush |-> 0,
     overflow |-> FALSE, panic |-> FALSE]

\* ctx.render_queue.push_*(..): q is the queue after the push
Pushed(ps, q) ==
    [ps EXCEPT !.queue = q, !.npush = @ + 1, !.overflow = @ \/ q.overflow]

\* a push a widget makes for itself
Drew(ps, w) ==
    [ps EXCEPT !.drawn = Append(@, [by |-> w,
                                    vertices |-> ps.queue.vertices_tail,
                                    indices |-> ps.queue.indices_tail])]

\* render_outline_helper
RenderOutlineHelper(ps, geometry, color) ==
    LET thickness == 1
        x == geometry.x
        y == geometry.y
        w == geometry.w
        h == geometry.h
        p1 == Pushed(ps, PushRect(ps.queue, [x |-> x, y |-> y, w |-> w, h |-> thickness], color))
        p2 == Pushed(p1, PushRect(p1.queue, [x |-> x, y |-> y + h - thickness,
                                             w |-> w, h |-> thickness], color))
        p3 == Pushed(p2, PushRect(p2.queue, [x |-> x, y |-> y, w |-> thickness, h |-> h], color))
    IN  Pushed(p3, PushRect(p3.queue, [x |-> x + w - thickness, y |-> y,
                                       w |-> thickness, h |-> h], color))

\* if ctx.debug { render_outline_helper(..) }
DebugOutline(ps, my_geo, color) ==
    IF Debug THEN RenderOutlineHelper(ps, my_geo, color) ELSE ps

\* Text::prepare, `self.last_text.as_ref() != Some(&self.text)`
NeedsShapeFirstOnly(last, txt) == last = <<>>
NeedsShape(last, txt) == last # <<txt>>

\* Text::prepare
TextPrepare(t, geometry, ps) ==
    IF node_id[t] = 0
    THEN [ps EXCEPT !.panic = TRUE]
    ELSE LET my_geo == NodeGeometry(t, geometry)
             p1 == [Visited(ps, t, "prepare", geometry, my_geo)
                      EXCEPT !.buffer[t] = TRUE]
             p2 == IF NeedsShape(p1.last_text[t], text[t])
                   THEN [p1 EXCEPT
                           !.shapes = Append(@, [node |-> t, text |-> text[t],
                                                 width |-> my_geo.w,
                                                 height |-> my_geo.h]),
                           !.last_text[t] = <<text[t]>>]
                   ELSE p1
         IN  DebugOutline(p2, my_geo, TextOutline)

\* Button::prepare, the colour of the background
ButtonColorHoverFirst(b) ==
    IF hovered[b] THEN ButtonHoveredColor
    ELSE IF pressed[b] THEN ButtonPressedColor
    ELSE ButtonIdleColor
ButtonColor(b) ==
    IF pressed[b] THEN ButtonPressedColor
    ELSE IF hovered[b] THEN ButtonHoveredColor
    ELSE ButtonIdleColor

\* Button::prepare
ButtonPrepare(b, geometry, ps) ==
    IF node_id[b] = 0
    THEN [ps EXCEPT !.panic = TRUE]
    ELSE LET my_geo == NodeGeometry(b, geometry)
             p1 == Visited(ps, b, "prepare", geometry, my_geo)
             p2 == Pushed(p1, PushRoundedRect(p1.queue, my_geo, ButtonColor(b),
                                              ButtonRadius))
             p3 == TextPrepare(TextView(b), my_geo, Drew(p2, b))
         IN  IF p3.panic THEN p3 ELSE DebugOutline(p3, my_geo, ButtonOutline)

\* View::prepare by widget kind. Column::prepare prepares every child in order with
\* its own resolved geometry, then draws its outline.
RECURSIVE Prepare(_, _, _)
Prepare(w, geometry, ps) ==
    LET RECURSIVE Each(_, _, _)
        Each(kids, my_geo, t) ==
            IF kids = <<>> \/ t.panic THEN t
            ELSE Each(Tail(kids), my_geo, Prepare(Head(kids), my_geo, t))
    IN  CASE Kind(w) = "Column" ->
                IF node_id[w] = 0
                THEN [ps EXCEPT !.panic = TRUE]
                ELSE LET my_geo == NodeGeometry(w, geometry)
                         p1 == Each(Children(w), my_geo,
                                    Visited(ps, w, "prepare", geometry, my_geo))
                     IN  IF p1.panic THEN p1 ELSE DebugOutline(p1, my_geo, ColumnOutline)
          [] Kind(w) = "Button" -> ButtonPrepare(w, geometry, ps)
          [] Kind(w) = "Text"   -> TextPrepare(w, geometry, ps)

\* ---- the collect_text_areas pass
CollectStart == [areas |-> <<>>, visits |-> <<>>, panic |-> FALSE]

\* glyphon::TextArea { buffer, left, top, bounds, .. }
TextArea(t, my_geo) ==
    [buffer |-> t, left |-> my_geo.x, top |-> my_geo.y,
     bounds |-> [left |-> my_geo.x, top |-> my_geo.y,
                 right |-> my_geo.x + my_geo.w, bottom |-> my_geo.y + my_geo.h]]

\* Text::collect_text_areas; buf is the texts' buffer state
TextCollectTextAreas(t, geometry, buf, cs) ==
    IF node_id[t] = 0
    THEN [cs EXCEPT !.panic = TRUE]
    ELSE LET my_geo == NodeGeometry(t, geometry)
             c1 == Visited(cs, t, "collect_text_areas", geometry, my_geo)
         IN  IF buf[t] THEN [c1 EXCEPT !.areas = Append(@, TextArea(t, my_geo))] ELSE c1

\* View::collect_text_areas by widget kind
RECURSIVE CollectTextAreas(_, _, _, _)
CollectTextAreas(w, geometry, buf, cs) ==
    LET RECURSIVE Each(_, _, _)
        Each(kids, my_geo, t) ==
            IF kids = <<>> \/ t.panic THEN t
            ELSE Each(Tail(kids), my_geo, CollectTextAreas(Head(kids), my_geo, buf, t))
    IN  CASE Kind(w) = "Column" ->
                IF node_id[w] = 0
                THEN [cs EXCEPT !.panic = TRUE]
                ELSE Each(Children(w), NodeGeometry(w, geometry),
                          Visited(cs, w, "collect_text_areas", geometry,
                                  NodeGeometry(w, geometry)))
          [] Kind(w) = "Button" ->
                IF node_id[w] = 0
                THEN [cs EXCEPT !.panic = TRUE]
                ELSE TextCollectTextAreas(TextView(w), NodeGeometry(w, geometry), buf,
                          Visited(cs, w, "collect_text_areas", geometry,
                                  NodeGeometry(w, geometry)))
          [] Kind(w) = "Text" -> TextCollectTextAreas(w, geometry, buf, cs)

\* ---- the render pass
RenderStart == [visits |-> <<>>, panic |-> FALSE]

\* View::render by widget kind: Column::render and Button::render hand the geometry
\* they were given on to their children, Text::render does nothing.
RECURSIVE Render(_, _, _)
Render(w, geometry, rs) ==
    LET RECURSIVE Each(_, _)
        Each(kids, t) ==
            IF kids = <<>> THEN t ELSE Each(Tail(kids), Render(Head(kids), geometry, t))
    IN  CASE Kind(w) = "Column" ->
                Each(Children(w), Visited(rs, w, "render", geometry, geometry))
          [] Kind(w) = "Button" ->
                Render(TextView(w), geometry, Visited(rs, w, "render", geometry, geometry))
          [] Kind(w) = "Text" -> Visited(rs, w, "render", geometry, geometry)

\* ---- Rect, Circle, RoundedRect
ShapeKinds == {"Rect", "Circle", "RoundedRect"}
ShapeColor(k) ==
    CASE k = "Rect" -> <<1000, 0, 0, 1000>>
      [] k = "Circle" -> <<0, 1000, 0, 1000>>
      [] k = "RoundedRect" -> <<0, 0, 1000, 1000>>
ShapeRadii == {4, 8}

\* Rect::new(color), Circle::new(color), RoundedRect::new(color, radius); radius is
\* 0 for the two shapes that have no such field
ShapeNew(color, radius) == [node_id |-> 0, color |-> color, radius |-> radius]

\* the geometry resolution that opens prepare of Rect, Circle and RoundedRect
ShapeGeometry(k, geometry) ==
    LET node_layout == taffy[shapes[k].node_id]
    IN  [x |-> geometry.x + node_layout.x,
         y |-> geometry.y + node_layout.y,
         w |-> node_layout.w,
         h |-> node_layout.h]

\* Rect::prepare, Circle::prepare, RoundedRect::prepare
ShapePrepare(k, geometry, ps) ==
    IF shapes[k].node_id = 0
    THEN [ps EXCEPT !.panic = TRUE]
    ELSE LET my_geo == ShapeGeometry(k, geometry)
             p1 == Visited(ps, k, "prepare", geometry, my_geo)
             q  == CASE k = "Rect" -> PushRect(p1.queue, my_geo, shapes[k].color)
                     [] k = "Circle" -> PushCircle(p1.queue, my_geo, shapes[k].color)
                     [] k = "RoundedRect" ->
                          PushRoundedRect(p1.queue, my_geo, shapes[k].color,
                                          shapes[k].radius)
         IN  Drew(Pushed(p1, q), k)

\* handle_event of Rect, Circle and RoundedRect: an empty body
ShapeHandleEvent(k, ev, geometry, ws) == ws

\* root_geometry of the frame driver: the window's inner size at the origin
RootGeometry == [x |-> 0, y |-> 0, w |-> winSize[1], h |-> winSize[2]]

\* ---- the button's absolute bounds as the specification states them: the
\* ---- engine boxes summed from the root down, edges included
Parent(w) ==
    CASE w \in {2, 4} -> 1
      [] w = 3 -> 2
      [] w = 5 -> 4
RECURSIVE AbsX(_)
AbsX(w) == taffy[node_id[w]].x + (IF w = Root THEN 0 ELSE AbsX(Parent(w)))
RECURSIVE AbsY(_)
AbsY(w) == taffy[node_id[w]].y + (IF w = Root THEN 0 ELSE AbsY(Parent(w)))
InBounds(b, x, y) ==
    /\ AbsX(b) <= x /\ x <= AbsX(b) + taffy[node_id[b]].w
    /\ AbsY(b) <= y /\ y <= AbsY(b) + taffy[node_id[b]].h
LaidOut == \A w \in Widgets : node_id[w] # 0
HitBy(x, y) == IF LaidOut THEN {b \in Buttons : InBounds(b, x, y)} ELSE {}

\* a pass over the tree from the root, and what it leaves behind
Run(evs) == {ViewHandleEvents(evs, RootGeometry, Pass)}
Outcome(evs, ws) ==
    /\ hovered' = ws.hovered
    /\ pressed' = ws.pressed
    /\ clicks' = ws.clicks
    /\ panicked' = ws.panic
    /\ invoked' = ws.invoked
    /\ insideClicks' =
         [b \in Buttons |->
            insideClicks[b]
            + Cardinality({i \in 1..Len(evs) :
                             /\ evs[i].kind = "MouseClick"
                             /\ b \in HitBy(evs[i].x, evs[i].y)})]

\* ---- the View trait driven directly (a test harness)
\* view.layout(&mut ctx) and compute_layout, as App::update_layout does them
WLayout(lay) ==
    /\ ~panicked
    /\ Len(taffy) < MaxLayouts * Cardinality(Widgets)
    /\ \E r \in {UpdateLayout(lay)} :
           /\ node_id' = r.node_id
           /\ taffy' = r.taffy
    /\ visits' = <<>>
    /\ drawn' = <<>>
    /\ text_areas' = <<>>
    /\ UNCHANGED <<hovered, pressed, clicks, panicked, appVars, histVars, storeVars,
                   geomVars, queueVars, textVars, prepLog, shapeLog, frames, auxVars>>

\* view.handle_event(&ev, &ctx, root_geometry)
WEvent(ev) ==
    /\ ~panicked
    /\ ev.kind = "MouseClick" => \A b \in Buttons : clicks[b] < MaxClicks
    /\ \E ws \in Run(<<ev>>) : Outcome(<<ev>>, ws)
    /\ lastInput' = ev.kind
    /\ pre' = [hovered |-> hovered, pressed |-> pressed]
    /\ hit' = HitBy(ev.x, ev.y)
    /\ UNCHANGED <<node_id, taffy, appVars, dispatched, pressInside, sincePress,
                   storeVars, drawVars>>

\* ---- app.rs, the batch upload of RedrawRequested

\* no upload made
NoBatch == [uploaded |-> FALSE, v_data |-> 0, i_data |-> 0, drawn |-> 0,
            max_index |-> -1]

\* RedrawRequested, "Render batched primitives from queue": the prefix of the queue
\* written to the two buffers, and the index range drawn
BatchUploadAll(q) ==
    IF q.vertices_len = 0
    THEN NoBatch
    ELSE [uploaded |-> TRUE, v_data |-> q.vertices_len, i_data |-> q.indices_len,
          drawn |-> q.indices_len]
BatchUploadSameCut(q) ==
    IF q.vertices_len = 0
    THEN NoBatch
    ELSE [uploaded |-> TRUE,
          v_data |-> Min(q.vertices_len, IndexBufferLen),
          i_data |-> Min(q.indices_len, IndexBufferLen),
          drawn  |-> Min(q.indices_len, IndexBufferLen)]
BatchUploadFewerVertices(q) ==
    IF q.vertices_len = 0
    THEN NoBatch
    ELSE [uploaded |-> TRUE,
          v_data |-> Min(q.vertices_len, VertexBufferLen \div 2),
          i_data |-> Min(q.indices_len, IndexBufferLen),
          drawn  |-> Min(q.indices_len, IndexBufferLen),
          max_index |-> q.head_max]
\* max_index: the largest index among those written, i_data[..]
BatchUpload(q) ==
    IF q.vertices_len = 0
    THEN NoBatch
    ELSE LET v_len == q.vertices_len
             i_len == q.indices_len
             v_data == Min(v_len, VertexBufferLen)
             i_data == Min(i_len, IndexBufferLen)
         IN  [uploaded |-> TRUE, v_data |-> v_data, i_data |-> i_data, drawn |-> i_data,
              max_index |-> q.head_max]
\* no contains() call made yet
NoProbe == [px |-> 0, py |-> 0, inside |-> FALSE, asked |-> FALSE]

\* Column::new, Button::new, Text::new, App::new: nothing laid out, nothing pressed
ViewNew ==
    /\ node_id = [w \in Widgets |-> 0]
    /\ taffy = <<>>
    /\ hovered = [b \in Buttons |-> FALSE]
    /\ pressed = [b \in Buttons |-> FALSE]
    /\ clicks = [b \in Buttons |-> 0]
    /\ appState = "Idle"
    /\ dirty = TRUE
    /\ cursor_pos = <<0, 0>>
    /\ root_node = 0
    /\ winSize = <<MaxCoord, MaxCoord>>
    /\ redraw_requested = FALSE
    /\ lastInput = "none"
    /\ dispatched = <<>>
    /\ invoked = <<>>
    /\ pre = [hovered |-> hovered, pressed |-> pressed]
    /\ hit = {}
    /\ pressInside = {}
    /\ sincePress = [b \in Buttons |-> 0]
    /\ insideClicks = [b \in Buttons |-> 0]
    /\ geom = Box(0, 0, 0, 0)
    /\ probe = NoProbe
    /\ render_queue = RenderQueueNew
    /\ pushed = 0
    /\ submitted = NoBatch
    /\ text = [t \in Texts |-> "a"]
    /\ last_text = [t \in Texts |-> <<>>]
    /\ buffer = [t \in Texts |-> FALSE]
    /\ drawn = <<>>
    /\ visits = <<>>
    /\ text_areas = <<>>
    /\ prepLog = <<>>
    /\ shapeLog = <<>>
    /\ shapes = [k \in ShapeKinds |->
                   ShapeNew(ShapeColor(k), IF k = "RoundedRect" THEN 8 ELSE 0)]
    /\ frames = 0
    /\ hooked = <<>>
    /\ control = "Wait"
    /\ lifecycle = <<>>
    /\ resizes = 0
    /\ frame_passes = <<>>


\* ------------------------------------------------------------- app.rs
\* the sizes the platform may report for the window
Sizes == {<<0, 0>>, <<MaxCoord, MaxCoord>>}
Points == {<<x, y>> : x \in Coords, y \in Coords}

Count(q, b) == Cardinality({i \in 1..Len(q) : q[i] = b})

\* WindowEvent::MouseInput: the events handed to the view, in order
MouseInputClickOnRelease(state, pos) ==
    IF state = "Pressed"
    THEN <<Ev("MouseDown", pos[1], pos[2])>>
    ELSE <<Ev("MouseUp", pos[1], pos[2]), Ev("MouseClick", pos[1], pos[2])>>
MouseInputEvents(state, pos) ==
    IF state = "Pressed"
    THEN <<Ev("MouseDown", pos[1], pos[2]), Ev("MouseClick", pos[1], pos[2])>>
    ELSE <<Ev("MouseUp", pos[1], pos[2])>>

\* self.view.on_init() and the like: the hook reaches the root view (and from
\* there only hooks with an empty body: Column and Button pass it on, Text keeps
\* the default)
Delivered(log, hook) ==
    IF hook = "on_update" /\ log # <<>> /\ log[Len(log)] = "on_update"
    THEN log
    ELSE Append(log, hook)

\* ApplicationHandler::resumed, `if let AppState::Idle = self.state`
ResumedCreatesAlways == TRUE
ResumedCreates == appState = "Idle"

\* ApplicationHandler::resumed
Resumed(lay) ==
    /\ ~panicked
    /\ IF ResumedCreates
       THEN /\ \E r \in {UpdateLayout(lay)} :
                 /\ node_id' = r.node_id
                 /\ taffy' = r.taffy
                 /\ root_node' = r.root
            /\ lifecycle' = Delivered(Delivered(lifecycle, "on_init"), "on_mount")
            /\ hooked' = OnHook(Root, "on_mount", OnHook(Root, "on_init", <<>>))
            /\ appState' = "Running"
            /\ cursor_pos' = <<0, 0>>
            /\ dirty' = TRUE
       ELSE UNCHANGED <<node_id, taffy, root_node, lifecycle, hooked, appState,
                        cursor_pos, dirty>>
    /\ lastInput' = "Resumed"
    /\ dispatched' = <<>>
    /\ invoked' = <<>>
    /\ UNCHANGED <<hovered, pressed, clicks, panicked, winSize, redraw_requested,
                   pre, hit, pressInside, sincePress, insideClicks, storeVars,
                   paintVars, control, resizes, frame_passes>>

\* window_event, WindowEvent::Resized(size)
Resized(size, lay) ==
    /\ ~panicked
    /\ (size[1] > 0 /\ size[2] > 0) => Len(taffy) < MaxLayouts * Cardinality(Widgets)
    /\ winSize' = size
    /\ IF appState = "Running" /\ size[1] > 0 /\ size[2] > 0
       THEN /\ \E r \in {UpdateLayout(lay)} :
                 /\ node_id' = r.node_id
                 /\ taffy' = r.taffy
                 /\ root_node' = r.root
            /\ dirty' = TRUE
            /\ resizes' = resizes + 1
       ELSE UNCHANGED <<node_id, taffy, root_node, dirty, resizes>>
    /\ lastInput' = "Resized"
    /\ dispatched' = <<>>
    /\ invoked' = <<>>
    /\ UNCHANGED <<hovered, pressed, clicks, panicked, appState, cursor_pos,
                   redraw_requested, pre, hit, pressInside, sincePress, insideClicks,
                   storeVars, paintVars, hooked, control, lifecycle, frame_passes>>

\* window_event, WindowEvent::CursorMoved { position }
CursorMoved(position) ==
    /\ ~panicked
    /\ IF appState = "Running"
       THEN /\ cursor_pos' = position
            /\ \E ws \in Run(<<Ev("MouseMove", position[1], position[2])>>) :
                 /\ Outcome(<<Ev("MouseMove", position[1], position[2])>>, ws)
                 /\ dispatched' = ws.seen
            /\ lastInput' = "CursorMoved"
            /\ dirty' = (IF panicked' THEN dirty ELSE TRUE)
            /\ redraw_requested' = (IF panicked' THEN redraw_requested ELSE TRUE)
            /\ sincePress' = [b \in Buttons |-> sincePress[b] + Count(invoked', b)]
       ELSE /\ lastInput' = "CursorMoved"
            /\ dispatched' = <<>>
            /\ invoked' = <<>>
            /\ UNCHANGED <<cursor_pos, hovered, pressed, clicks, panicked,
                           insideClicks, dirty, redraw_requested, sincePress>>
    /\ UNCHANGED <<node_id, taffy, appState, root_node, winSize, pre, hit,
                   pressInside, storeVars, drawVars>>

\* window_event, WindowEvent::MouseInput { state, button }; any button but the left
\* falls to the `_ => ()` arm
MouseInput(state, button) ==
    /\ ~panicked
    /\ state = "Pressed" => \A b \in Buttons : clicks[b] < MaxClicks
    /\ IF button = "Left" /\ appState = "Running"
       THEN /\ \E ws \in Run(MouseInputEvents(state, cursor_pos)) :
                 /\ Outcome(MouseInputEvents(state, cursor_pos), ws)
                 /\ dispatched' = ws.seen
            /\ lastInput' = state
            /\ dirty' = (IF panicked' THEN dirty ELSE TRUE)
            /\ redraw_requested' = (IF panicked' THEN redraw_requested ELSE TRUE)
            /\ pressInside' = (IF state = "Pressed"
                               THEN HitBy(cursor_pos[1], cursor_pos[2])
                               ELSE pressInside)
            /\ sincePress' = [b \in Buttons |->
                                (IF state = "Pressed" THEN 0 ELSE sincePress[b])
                                + Count(invoked', b)]
       ELSE /\ lastInput' = "Ignored"
            /\ dispatched' = <<>>
            /\ invoked' = <<>>
            /\ UNCHANGED <<hovered, pressed, clicks, panicked, insideClicks,
                           dirty, redraw_requested, pressInside, sincePress>>
    /\ UNCHANGED <<node_id, taffy, appState, cursor_pos, root_node, winSize, pre, hit,
                   storeVars, drawVars>>

\* create_signal(v) for one signal "A"; nothing subscribed, no call in progress
StoreNew ==
    /\ initial \in [{"A"} -> Vals]
    /\ value = initial
    /\ listeners = [s \in {"A"} |-> <<>>]
    /\ memoVal = <<>>
    /\ stack = <<>>
    /\ panicked = FALSE
    /\ hist = [s \in {"A"} |-> <<>>]
    /\ subscribed = [s \in {"A"} |-> <<>>]
    /\ cur = NoUpdate
    /\ fired = <<>>
    /\ got = NoCall
    /\ computed = <<>>
    /\ cgot = NoCellCall

SignalInit == StoreNew /\ ViewNew

\* ---- one signal and the Computed values made from it (ComputedSpec)
\* The signal gets one observing listener.
ComputedNext ==
    \/ \E s \in DOMAIN value, f \in Mutators : SigUpdate(s, f)
    \/ \E s \in DOMAIN value : listeners[s] = <<>> /\ SigSubscribe(s)
    \/ \E s \in DOMAIN value, d \in Derives : CreateComputed(s, d)
    \/ \E i \in 1..MaxCells : CellGet(i)
    \/ NotifyStep

ComputedInit == StoreNew /\ initial["A"] = 0 /\ ViewNew

ComputedSpec == ComputedInit /\ [][ComputedNext]_vars

\* ---- two signals whose listeners may update a signal (ChainSpec)
\* create_signal(0) twice: "A" and "B"
Chain == {"A", "B"}
ChainNew ==
    /\ initial = [s \in Chain |-> 0]
    /\ value = initial
    /\ listeners = [s \in Chain |-> <<>>]
    /\ memoVal = <<>>
    /\ stack = <<>>
    /\ panicked = FALSE
    /\ hist = [s \in Chain |-> <<>>]
    /\ subscribed = [s \in Chain |-> <<>>]
    /\ cur = NoUpdate
    /\ fired = <<>>
    /\ got = NoCall
    /\ computed = <<>>
    /\ cgot = NoCellCall

ChainInit == ChainNew /\ ViewNew

\* The client updates "A"; "B" is updated by listeners.
ChainNext ==
    \/ SigUpdate("A", "inc")
    \/ \E s \in DOMAIN value : SigSubscribe(s)
    \/ \E s \in DOMAIN value, t \in DOMAIN value : SubscribeUpdater(s, t, "inc")
    \/ NotifyStep

ChainSpec == ChainInit /\ [][ChainNext]_vars
\* update() runs on the caller's thread without interruption: a notification
\* in progress takes its next turn
ChainLive == ChainSpec /\ WF_vars(NotifyStep)

\* ---- two signals whose listeners may subscribe listeners (ReentrySpec)
\* The client updates "A"; "B" is updated by listeners.
ReentryNext ==
    \/ SigUpdate("A", "inc")
    \/ \E s \in DOMAIN value : SigSubscribe(s)
    \/ \E s \in DOMAIN value, t \in DOMAIN value : SubscribeSubscriber(s, t)
    \/ SubscribeUpdater("A", "B", "inc")
    \/ NotifyStep

ReentrySpec == ChainInit /\ [][ReentryNext]_vars

SignalNext ==
    \/ \E s \in DOMAIN value : SigGet(s)
    \/ \E s \in DOMAIN value, f \in Mutators : SigUpdate(s, f)
    \/ \E s \in DOMAIN value : SigSubscribe(s)
    \/ \E s \in DOMAIN value, d \in Derives : CreateMemo(s, d)
    \/ NotifyStep

SignalSpec == SignalInit /\ [][SignalNext]_vars

WidgetInit == StoreNew /\ initial["A"] = 0 /\ ViewNew

WidgetNext ==
    \/ \E lay \in LayoutResults : WLayout(lay)
    \/ \E ev \in Events : WEvent(ev)

WidgetSpec == WidgetInit /\ [][WidgetNext]_vars

\* The platform delivers window events only for a window that exists, and the
\* window is created in resumed.
WindowExists == appState = "Running"

Init == StoreNew /\ initial["A"] = 0 /\ ViewNew

Next ==
    \/ \E lay \in LayoutResults : Resumed(lay)
    \/ \E size \in Sizes, lay \in LayoutResults : WindowExists /\ Resized(size, lay)
    \/ \E position \in Points : WindowExists /\ CursorMoved(position)
    \/ \E state \in {"Pressed", "Released"}, button \in {"Left", "Right"} :
          WindowExists /\ MouseInput(state, button)

Spec == Init /\ [][Next]_vars

\* the text area of the "FPS: .." debug text
FpsArea ==
    [buffer |-> "debug_buffer", left |-> 10, top |-> 10,
     bounds |-> [left |-> 0, top |-> 0, right |-> winSize[1], bottom |-> winSize[2]]]

\* RedrawRequested, `if !self.dirty { return; }`
RedrawDrawsAlways == TRUE
RedrawDraws == dirty

\* the steps of one frame in the order RedrawRequested runs them, up to the step
\* that panicked if one did
FramePasses(prepare_panic, collect_panic, render_panic) ==
    <<"on_update", "clear", "prepare">>
    \o (IF prepare_panic THEN <<>>
        ELSE <<"collect_text_areas">>
             \o (IF collect_panic THEN <<>>
                 ELSE <<"upload", "render">>
                      \o (IF render_panic THEN <<>> ELSE <<"submit", "present">>)))

\* window_event, WindowEvent::RedrawRequested: on_update; then clear, prepare,
\* collect_text_areas, the batch upload and draw, render, submit and present.
RedrawRequested ==
    /\ ~panicked
    /\ IF RedrawDraws /\ appState = "Running"
       THEN \E ps \in {Prepare(Root, RootGeometry, PrepareStart(Clear(render_queue)))} :
            \E cs \in {CollectTextAreas(Root, RootGeometry, ps.buffer, CollectStart)} :
            \E rs \in {Render(Root, RootGeometry, RenderStart)} :
               /\ lifecycle' = Delivered(lifecycle, "on_update")
               /\ hooked' = OnHook(Root, "on_update", <<>>)
               /\ frame_passes' = FramePasses(ps.panic, cs.panic, rs.panic)
               /\ render_queue' = ps.queue
               /\ pushed' = ps.npush
               /\ last_text' = ps.last_text
               /\ buffer' = ps.buffer
               /\ panicked' \in (IF ps.panic \/ cs.panic \/ rs.panic THEN {TRUE}
                                 ELSE IF ps.overflow THEN BOOLEAN ELSE {FALSE})
               /\ IF ps.panic \/ cs.panic \/ rs.panic
                  THEN UNCHANGED <<text_areas, submitted, dirty, frames>>
                  ELSE /\ text_areas' = (IF Debug THEN Append(cs.areas, FpsArea)
                                         ELSE cs.areas)
                       /\ submitted' = BatchUpload(ps.queue)
                       /\ dirty' = FALSE
                       /\ frames' = Min(frames + 1, 2)
       ELSE UNCHANGED <<render_queue, pushed, last_text, buffer, panicked, text_areas,
                        submitted, dirty, frames, lifecycle, hooked,
                        frame_passes>>
    /\ redraw_requested' = FALSE
    /\ lastInput' = "RedrawRequested"
    /\ dispatched' = <<>>
    /\ invoked' = <<>>
    /\ UNCHANGED <<widgetVars, appState, cursor_pos, root_node, winSize, pre, hit,
                   pressInside, sincePress, insideClicks, storeVars, geomVars, text,
                   drawn, visits, prepLog, shapeLog, shapeVars, control,
                   resizes>>

\* window_event, WindowEvent::CloseRequested: event_loop.exit()
CloseRequested ==
    /\ ~panicked
    /\ control' = "Exit"
    /\ lastInput' = "CloseRequested"
    /\ dispatched' = <<>>
    /\ invoked' = <<>>
    /\ UNCHANGED <<widgetVars, panicked, appVars, pre, hit, pressInside, sincePress,
                   insideClicks, storeVars, paintVars, hooked, lifecycle, resizes,
                   frame_passes>>

\* ApplicationHandler::exiting
Exiting ==
    /\ ~panicked
    /\ control' = "Exited"
    /\ lifecycle' = Delivered(lifecycle, "on_unmount")
    /\ hooked' = OnHook(Root, "on_unmount", <<>>)
    /\ lastInput' = "Exiting"
    /\ dispatched' = <<>>
    /\ invoked' = <<>>
    /\ UNCHANGED <<widgetVars, panicked, appVars, pre, hit, pressInside, sincePress,
                   insideClicks, storeVars, paintVars, resizes, frame_passes>>

\* The event loop calls exiting once, after event_loop.exit() was called, and
\* nothing after it.
LoopRuns == control # "Exited"
LoopExits == control = "Exit"

\* The platform events of a session in which the pointer moves and the window is
\* resized and redrawn, and no mouse button is used.
FrameNext ==
    \/ \E lay \in LayoutResults : LoopRuns /\ Resumed(lay)
    \/ \E size \in Sizes, lay \in LayoutResults :
          LoopRuns /\ WindowExists /\ Resized(size, lay)
    \/ \E position \in Points : LoopRuns /\ WindowExists /\ CursorMoved(position)
    \/ LoopRuns /\ WindowExists /\ RedrawRequested
    \/ LoopRuns /\ WindowExists /\ CloseRequested
    \/ LoopExits /\ Exiting

FrameSpec == Init /\ [][FrameNext]_vars

\* Every platform callback of the frame driver that reaches the view tree, in a
\* session that is not closed.
DriverNext ==
    \/ \E lay \in LayoutResults : Resumed(lay)
    \/ \E size \in Sizes, lay \in LayoutResults : WindowExists /\ Resized(size, lay)
    \/ \E position \in Points : WindowExists /\ CursorMoved(position)
    \/ \E state \in {"Pressed", "Released"}, button \in {"Left", "Right"} :
          WindowExists /\ MouseInput(state, button)
    \/ WindowExists /\ RedrawRequested

DriverSpec == Init /\ [][DriverNext]_vars

\* ---- the frame driver next to a client that updates a Signal (ReactSpec)
\* The engine answers every layout alike and the pointer visits two places; the
\* client increments the signal. Everything runs on one thread: a platform
\* callback starts only when no update is in progress.
ReactLayouts == {lay \in LayoutResults : lay[Root].y = 0}
ReactPoints == {<<0, 0>>, <<MaxCoord, 0>>}

ReactNext ==
    \/ \E lay \in ReactLayouts : Idle /\ Resumed(lay)
    \/ \E size \in Sizes, lay \in ReactLayouts :
          Idle /\ WindowExists /\ Resized(size, lay)
    \/ \E position \in ReactPoints : Idle /\ WindowExists /\ CursorMoved(position)
    \/ \E state \in {"Pressed", "Released"}, button \in {"Left", "Right"} :
          Idle /\ WindowExists /\ MouseInput(state, button)
    \/ Idle /\ WindowExists /\ RedrawRequested
    \/ \E s \in DOMAIN value : SigUpdate(s, "inc")
    \/ NotifyStep

ReactSpec == Init /\ [][ReactNext]_vars

\* ---- the render queue driven directly
\* the primitives a caller pushes: one geometry and one colour, any shape
QueueShapes == {"rect", "rounded_rect", "circle"}
QueueGeometry == Box(0, 0, MaxCoord, MaxCoord)
QueueColor == <<1000, 0, 0, 1000>>
QueueRadius == 8

\* render_queue.push_rect / push_rounded_rect / push_circle
QueuePush(shape) ==
    /\ ~panicked
    /\ pushed < MaxPushes
    /\ \E q \in {CASE shape = "rect" -> PushRect(render_queue, QueueGeometry, QueueColor)
                   [] shape = "rounded_rect" ->
                        PushRoundedRect(render_queue, QueueGeometry, QueueColor, QueueRadius)
                   [] shape = "circle" ->
                        PushCircle(render_queue, QueueGeometry, QueueColor)} :
          /\ render_queue' = q
          /\ panicked' \in (IF q.overflow THEN BOOLEAN ELSE {FALSE})
    /\ pushed' = pushed + 1
    /\ submitted' = NoBatch
    /\ UNCHANGED <<storeVars, widgetVars, appVars, histVars, geomVars, textVars,
                   passVars, frames, auxVars>>

\* render_queue.clear()
QueueClear ==
    /\ ~panicked
    /\ render_queue' = Clear(render_queue)
    /\ pushed' = 0
    /\ submitted' = NoBatch
    /\ UNCHANGED <<storeVars, panicked, widgetVars, appVars, histVars, geomVars,
                   textVars, passVars, frames, auxVars>>

\* the batch upload and draw of RedrawRequested
QueueUpload ==
    /\ ~panicked
    /\ submitted' = BatchUpload(render_queue)
    /\ UNCHANGED <<render_queue, pushed, storeVars, panicked, widgetVars, appVars,
                   histVars, geomVars, textVars, passVars, frames, auxVars>>

QueueNext ==
    \/ \E shape \in QueueShapes : QueuePush(shape)
    \/ QueueClear
    \/ QueueUpload

QueueSpec == Init /\ [][QueueNext]_vars

\* ---- the four passes of the View trait driven directly (PassSpec), the render
\* ---- queue in the harness's hands
\* view.prepare(&mut ctx, &layout_ctx, root_geometry) on an empty queue
WPrepare ==
    /\ ~panicked
    /\ render_queue.vertices_len = 0
    /\ \E ps \in {Prepare(Root, RootGeometry, PrepareStart(render_queue))} :
          /\ render_queue' = ps.queue
          /\ pushed' = pushed + ps.npush
          /\ last_text' = ps.last_text
          /\ buffer' = ps.buffer
          /\ drawn' = ps.drawn
          /\ visits' = ps.visits
          /\ panicked' \in (IF ps.panic THEN {TRUE}
                            ELSE IF ps.overflow THEN BOOLEAN ELSE {FALSE})
    /\ text_areas' = <<>>
    /\ lastInput' = "Prepare"
    /\ invoked' = <<>>
    /\ UNCHANGED <<widgetVars, appVars, dispatched, pre, hit, pressInside, sincePress,
                   insideClicks, storeVars, geomVars, submitted, text, prepLog,
                   shapeLog, frames, auxVars>>

\* view.collect_text_areas(&layout_ctx, root_geometry, &mut text_areas)
WCollectTextAreas ==
    /\ ~panicked
    /\ \E cs \in {CollectTextAreas(Root, RootGeometry, buffer, CollectStart)} :
          /\ text_areas' = cs.areas
          /\ visits' = cs.visits
          /\ panicked' = cs.panic
    /\ drawn' = <<>>
    /\ lastInput' = "CollectTextAreas"
    /\ invoked' = <<>>
    /\ UNCHANGED <<widgetVars, appVars, dispatched, pre, hit, pressInside, sincePress,
                   insideClicks, storeVars, geomVars, queueVars, textVars, prepLog,
                   shapeLog, frames, auxVars>>

\* view.render(&ctx, &mut rpass, root_geometry)
WRender ==
    /\ ~panicked
    /\ \E rs \in {Render(Root, RootGeometry, RenderStart)} :
          /\ visits' = rs.visits
          /\ panicked' = rs.panic
    /\ drawn' = <<>>
    /\ text_areas' = <<>>
    /\ lastInput' = "Render"
    /\ invoked' = <<>>
    /\ UNCHANGED <<widgetVars, appVars, dispatched, pre, hit, pressInside, sincePress,
                   insideClicks, storeVars, geomVars, queueVars, textVars, prepLog,
                   shapeLog, frames, auxVars>>

\* the events the harness of the four passes sends to the root: the pointer moves,
\* goes down and goes up
PassEvents == {ev \in Events : ev.kind # "MouseClick"}

\* view.handle_event(&ev, &ctx, root_geometry)
PEvent(ev) ==
    /\ ~panicked
    /\ \E ws \in Run(<<ev>>) :
          /\ Outcome(<<ev>>, ws)
          /\ visits' = ws.visits
    /\ drawn' = <<>>
    /\ text_areas' = <<>>
    /\ lastInput' = ev.kind
    /\ UNCHANGED <<node_id, taffy, appVars, dispatched, pre, hit, pressInside,
                   sincePress, storeVars, geomVars, queueVars, textVars, prepLog,
                   shapeLog, frames, auxVars>>

\* button.handle_event(&ev, &ctx, root_geometry) on a Button that no layout call
\* has reached
WButtonEvent(b, ev) ==
    /\ ~panicked
    /\ node_id[b] = 0
    /\ \E ws \in {ButtonHandleEvent(b, ev, RootGeometry, Pass)} :
          /\ hovered' = ws.hovered
          /\ pressed' = ws.pressed
          /\ clicks' = ws.clicks
          /\ panicked' = ws.panic
          /\ invoked' = ws.invoked
          /\ visits' = ws.visits
    /\ drawn' = <<>>
    /\ text_areas' = <<>>
    /\ lastInput' = "ButtonEvent"
    /\ UNCHANGED <<node_id, taffy, appVars, dispatched, pre, hit, pressInside,
                   sincePress, insideClicks, storeVars, geomVars, queueVars,
                   textVars, prepLog, shapeLog, frames, auxVars>>

PassNext ==
    \/ \E lay \in LayoutResults : WLayout(lay)
    \/ \E ev \in PassEvents : PEvent(ev)
    \/ \E b \in Buttons, ev \in Events : WButtonEvent(b, ev)
    \/ WPrepare
    \/ WCollectTextAreas
    \/ WRender
    \/ QueueClear

PassSpec == Init /\ [][PassNext]_vars

\* ---- one Text node driven directly (TextSpec)
Label == 3
\* the boxes the engine may compute for the node
TextBoxes == {Box(0, 0, MaxCoord, MaxCoord), Box(MaxCoord, MaxCoord, 0, 0)}

\* text.layout(&mut ctx), then compute_layout on the node
TextLayout(box) ==
    /\ ~panicked
    /\ Len(taffy) < MaxLayouts
    /\ \E st \in {LayoutNode(Label, [node_id |-> node_id, taffy |-> taffy])} :
          /\ node_id' = st.node_id
          /\ taffy' = [st.taffy EXCEPT ![st.node_id[Label]] = box]
    /\ UNCHANGED <<hovered, pressed, clicks, panicked, appVars, histVars, storeVars,
                   drawVars>>

\* text.text = s
TextSetText(s) ==
    /\ ~panicked
    /\ text' = [text EXCEPT ![Label] = s]
    /\ UNCHANGED <<widgetVars, panicked, appVars, histVars, storeVars, geomVars,
                   queueVars, last_text, buffer, passVars, frames, auxVars>>

\* text.prepare(&mut ctx, &layout_ctx, root_geometry)
TextPrepareCall ==
    /\ ~panicked
    /\ Len(prepLog) < MaxPrepares
    /\ \E ps \in {TextPrepare(Label, RootGeometry, PrepareStart(render_queue))} :
          /\ render_queue' = ps.queue
          /\ pushed' = pushed + ps.npush
          /\ last_text' = ps.last_text
          /\ buffer' = ps.buffer
          /\ visits' = ps.visits
          /\ panicked' \in (IF ps.panic THEN {TRUE}
                            ELSE IF ps.overflow THEN BOOLEAN ELSE {FALSE})
          /\ prepLog' = (IF ps.panic THEN prepLog ELSE Append(prepLog, text[Label]))
          /\ shapeLog' = shapeLog \o [i \in 1..Len(ps.shapes) |-> ps.shapes[i].text]
    /\ lastInput' = "Prepare"
    /\ UNCHANGED <<widgetVars, appVars, dispatched, invoked, pre, hit, pressInside,
                   sincePress, insideClicks, storeVars, geomVars, submitted, text,
                   drawn, text_areas, frames, auxVars>>

TextNext ==
    \/ \E box \in TextBoxes : TextLayout(box)
    \/ \E s \in TextValues : TextSetText(s)
    \/ TextPrepareCall

TextSpec == Init /\ [][TextNext]_vars

\* ---- Rect, Circle and RoundedRect driven directly (ShapeSpec)
\* the boxes the engine may compute for a shape, and the parent geometries a caller
\* may hand to its passes
ShapeBoxes == {Box(0, 0, MaxCoord, MaxCoord), Box(MaxCoord, 0, 0, MaxCoord)}
ShapeParents == {Box(0, 0, MaxCoord, MaxCoord), Box(MaxCoord, MaxCoord, 0, 0)}

\* rounded_rect.radius = r
ShapeSetRadius(r) ==
    /\ ~panicked
    /\ shapes' = [shapes EXCEPT !["RoundedRect"].radius = r]
    /\ lastInput' = "ShapeSet"
    /\ UNCHANGED <<widgetVars, panicked, appVars, dispatched, invoked, pre, hit,
                   pressInside, sincePress, insideClicks, storeVars, geomVars,
                   queueVars, textVars, passVars, frames, hookVars, lifeVars>>

\* shape.layout(&mut ctx): new_leaf and node_id = Some(node); then compute_layout
\* on the node
ShapeLayout(k, box) ==
    /\ ~panicked
    /\ Len(taffy) < MaxLayouts
    /\ shapes' = [shapes EXCEPT ![k].node_id = Len(taffy) + 1]
    /\ taffy' = Append(taffy, box)
    /\ lastInput' = "ShapeLayout"
    /\ UNCHANGED <<node_id, hovered, pressed, clicks, panicked, appVars, dispatched,
                   invoked, pre, hit, pressInside, sincePress, insideClicks,
                   storeVars, geomVars, queueVars, textVars, passVars, frames,
                   hookVars, lifeVars>>

\* shape.prepare(&mut ctx, &layout_ctx, geometry)
WShapePrepare(k, geometry) ==
    /\ ~panicked
    /\ pushed < MaxPrepares
    /\ \E ps \in {ShapePrepare(k, geometry, PrepareStart(render_queue))} :
          /\ render_queue' = ps.queue
          /\ pushed' = pushed + ps.npush
          /\ drawn' = ps.drawn
          /\ visits' = ps.visits
          /\ panicked' \in (IF ps.panic THEN {TRUE}
                            ELSE IF ps.overflow THEN BOOLEAN ELSE {FALSE})
    /\ lastInput' = "ShapePrepare"
    /\ UNCHANGED <<widgetVars, appVars, dispatched, invoked, pre, hit, pressInside,
                   sincePress, insideClicks, storeVars, geomVars, submitted, textVars,
                   text_areas, prepLog, shapeLog, frames, auxVars>>

\* shape.handle_event(&ev, &layout_ctx, geometry)
WShapeEvent(k, ev, geometry) ==
    /\ ~panicked
    /\ \E ws \in {ShapeHandleEvent(k, ev, geometry, Pass)} :
          /\ hovered' = ws.hovered
          /\ pressed' = ws.pressed
          /\ clicks' = ws.clicks
          /\ panicked' = ws.panic
          /\ invoked' = ws.invoked
    /\ lastInput' = "ShapeEvent"
    /\ UNCHANGED <<node_id, taffy, appVars, dispatched, pre, hit, pressInside,
                   sincePress, insideClicks, storeVars, geomVars, queueVars,
                   textVars, passVars, frames, auxVars>>

ShapeNext ==
    \/ \E r \in ShapeRadii : ShapeSetRadius(r)
    \/ \E k \in ShapeKinds, box \in ShapeBoxes : ShapeLayout(k, box)
    \/ \E k \in ShapeKinds, geometry \in ShapeParents : WShapePrepare(k, geometry)
    \/ \E k \in ShapeKinds, ev \in Events, geometry \in ShapeParents :
          WShapeEvent(k, ev, geometry)

ShapeSpec == Init /\ [][ShapeNext]_vars

\* ---- Geometry::contains driven directly
\* the Geometry values a caller builds, and the points it asks about: every point
\* of the grid that reaches one step beyond the largest geometry on each side
Geometries == {Box(x, y, w, h) : x \in Coords, y \in Coords, w \in Coords, h \in Coords}
ProbeCoords == (0 - 1)..(2 * MaxCoord + 1)

\* Geometry { x, y, width, height }
GeometryNew(g) ==
    /\ geom' = g
    /\ probe' = NoProbe
    /\ UNCHANGED <<storeVars, panicked, widgetVars, appVars, histVars, queueVars,
                   textVars, passVars, frames, auxVars>>

\* geom.contains(px, py)
GeometryContains(px, py) ==
    /\ probe' = [px |-> px, py |-> py, inside |-> Contains(geom, px, py), asked |-> TRUE]
    /\ UNCHANGED <<geom, storeVars, panicked, widgetVars, appVars, histVars,
                   queueVars, textVars, passVars, frames, auxVars>>

GeomNext ==
    \/ \E g \in Geometries : GeometryNew(g)
    \/ \E px \in ProbeCoords, py \in ProbeCoords : GeometryContains(px, py)

GeomSpec == Init /\ [][GeomNext]_vars

\* ------------------------------------------------------- claims C1 .. C4
RECURSIVE Fold(_, _)
Fold(fs, v) == IF fs = <<>> THEN v ELSE Fold(Tail(fs), Apply(Head(fs), v))

Front(q) == SubSeq(q, 1, Len(q) - 1)
Ids(q) == [i \in 1..Len(q) |-> q[i][1]]
Range(q) == {q[i] : i \in 1..Len(q)}
UpdateReturned == Idle /\ cur.sig # "none"
\* the value of the updated signal before and after the latest update
OldValue == Fold(Front(hist[cur.sig]), initial[cur.sig])
NewValue == Apply(hist[cur.sig][Len(hist[cur.sig])], OldValue)

\* C1: a get() made after the Nth update returns the N update functions applied
\* in call order to the initial value, and the value stays that fold whatever
\* number of get() calls were made (get() changes nothing).
C1_GetIsFoldOfUpdates ==
    /\ got.sig # "none" =>
          got.v = Fold(SubSeq(hist[got.sig], 1, got.n), initial[got.sig])
    /\ \A s \in DOMAIN value : value[s] = Fold(hist[s], initial[s])

C1_Witness ==
    /\ got.sig = "A" /\ got.n >= 2
    /\ got.n = Len(hist["A"])
    /\ Range(hist["A"]) = Mutators
    /\ got.v # initial["A"]

\* C2: no listener call fails; every listener invocation of an update sees, through
\* get(), the value the update committed; no listener is invoked twice; and once
\* the update has returned exactly the listeners subscribed when it began have run.
C2_ListenersFireOnceAfterCommit ==
    /\ ~panicked
    /\ cur.sig # "none" =>
          /\ \A i \in 1..Len(fired) : fired[i][2] = NewValue
          /\ \A i, j \in 1..Len(fired) : fired[i][1] = fired[j][1] => i = j
          /\ Range(Ids(fired)) \subseteq Range(cur.subs)
    /\ UpdateReturned => Range(Ids(fired)) = Range(cur.subs)

C2_Witness ==
    /\ UpdateReturned
    /\ Len(fired) >= 2
    /\ NewValue # OldValue
    /\ \A i \in 1..Len(fired) : fired[i][2] = NewValue

\* C3: the listeners of an update run in the order of their subscribe calls: what has
\* fired so far is always an initial part of the subscription order, and all of it
\* once the update has returned.
C3_NotifyInSubscriptionOrder ==
    /\ cur.sig # "none" =>
          /\ Len(fired) <= Len(cur.subs)
          /\ Ids(fired) = SubSeq(cur.subs, 1, Len(fired))
    /\ UpdateReturned => Ids(fired) = cur.subs

C3_Witness ==
    /\ UpdateReturned
    /\ Len(fired) >= 2
    /\ Len(hist[cur.sig]) >= 2
    /\ Ids(fired) = cur.subs

\* C4: whenever no update is in progress (so right after create_memo and after
\* every update of the dependency has returned) each memo holds derive applied to
\* the dependency's current value.
C4_MemoFollowsDependency ==
    Idle => \A s \in DOMAIN listeners : \A i \in 1..Len(listeners[s]) :
              LET l == listeners[s][i]
              IN  l.kind = "memo" =>
                    /\ l.id \in DOMAIN memoVal
                    /\ memoVal[l.id] = Derive(l.fn, value[s])

C4_Witness ==
    /\ UpdateReturned
    /\ \E i \in 1..Len(listeners[cur.sig]) :
          LET l == listeners[cur.sig][i]
          IN  /\ l.kind = "memo"
              /\ l.id \in Range(cur.subs)
              /\ memoVal[l.id] = Derive(l.fn, NewValue)
              /\ memoVal[l.id] # Derive(l.fn, OldValue)

\* ------------------------------------------------------ claims C5 .. C10
\* C5: for every button whose bounds held the pointer at the latest press, its
\* callback has run exactly once since that press began, that run being part of the
\* press's own dispatch; the release runs no callback and leaves the button not
\* pressed, wherever the pointer is by then.
C5_PressReleaseInvokesOnce ==
    \A b \in pressInside :
        /\ sincePress[b] = 1
        /\ lastInput = "Pressed" => Count(invoked, b) = 1
        /\ lastInput = "Released" => ~pressed[b] /\ invoked = <<>>

C5_Witness ==
    /\ lastInput = "Released"
    /\ \E b \in pressInside :
          /\ ~InBounds(b, cursor_pos[1], cursor_pos[2])
          /\ sincePress[b] = 1
          /\ clicks[b] >= 1
          /\ ~pressed[b]

\* C6: after a MouseDown every button whose bounds hold the point is pressed, every
\* other button keeps the pressed value it had, no hovered flag has changed and no
\* callback has run.
C6_MouseDownPressesInside ==
    (lastInput = "MouseDown" /\ ~panicked) =>
        /\ \A b \in Buttons :
              pressed[b] = (IF b \in hit THEN TRUE ELSE pre.pressed[b])
        /\ hovered = pre.hovered
        /\ invoked = <<>>

C6_Witness ==
    /\ lastInput = "MouseDown" /\ ~panicked
    /\ \E b \in Buttons \ hit : pre.pressed[b] /\ pressed[b]
    /\ \E b \in hit : ~pre.pressed[b] /\ pressed[b]

\* C7: after a MouseUp no button is pressed, whether or not its bounds hold the
\* point and whatever it was before; no hovered flag has changed and no callback
\* has run.
C7_MouseUpReleasesAlways ==
    (lastInput = "MouseUp" /\ ~panicked) =>
        /\ \A b \in Buttons : ~pressed[b]
        /\ hovered = pre.hovered
        /\ invoked = <<>>

C7_Witness ==
    /\ lastInput = "MouseUp" /\ ~panicked
    /\ \E b \in Buttons \ hit : pre.pressed[b] /\ ~pressed[b]
    /\ \E b \in Buttons : hovered[b]

\* C8: a MouseClick runs the callback of a button once if the button's bounds hold
\* the point and not at all otherwise, whatever pressed and hovered are, and changes
\* neither flag; at any time a button's callback has run as often as the button has
\* received a MouseClick with the point in its bounds.
C8_MouseClickInvokesIffInside ==
    /\ (lastInput = "MouseClick" /\ ~panicked) =>
          /\ \A b \in Buttons : Count(invoked, b) = (IF b \in hit THEN 1 ELSE 0)
          /\ Len(invoked) = Cardinality(hit)
          /\ pressed = pre.pressed
          /\ hovered = pre.hovered
    /\ \A b \in Buttons : clicks[b] = insideClicks[b]

C8_Witness ==
    /\ lastInput = "MouseClick" /\ ~panicked
    /\ \E b \in hit :
          /\ ~pre.pressed[b] /\ ~pre.hovered[b]
          /\ Count(invoked, b) = 1
          /\ clicks[b] >= 2
    /\ \E b \in Buttons \ hit : pre.pressed[b] /\ clicks[b] = 0

\* C9: after a MouseMove a button is hovered exactly if its bounds hold the point;
\* no pressed flag has changed and no callback has run.
C9_MouseMoveSetsHovered ==
    (lastInput = "MouseMove" /\ ~panicked) =>
        /\ \A b \in Buttons : hovered[b] = (b \in hit)
        /\ pressed = pre.pressed
        /\ invoked = <<>>

C9_Witness ==
    /\ lastInput = "MouseMove" /\ ~panicked
    /\ \E b \in Buttons : pre.hovered[b] /\ ~hovered[b]
    /\ \E b \in Buttons : ~pre.hovered[b] /\ hovered[b]

\* C10: the dispatch of a left-button press hands the view tree exactly a MouseDown
\* and then a MouseClick, both at the cursor position; the dispatch of a release
\* hands it exactly one MouseUp at the cursor position and no MouseClick.
C10_PressDispatchesDownThenClick ==
    /\ lastInput = "Pressed" =>
          dispatched = <<Ev("MouseDown", cursor_pos[1], cursor_pos[2]),
                         Ev("MouseClick", cursor_pos[1], cursor_pos[2])>>
    /\ lastInput = "Released" =>
          dispatched = <<Ev("MouseUp", cursor_pos[1], cursor_pos[2])>>

C10_Witness ==
    /\ lastInput = "Pressed"
    /\ cursor_pos # <<0, 0>>
    /\ Len(dispatched) = 2
    /\ dispatched[1].kind = "MouseDown" /\ dispatched[2].kind = "MouseClick"
    /\ dispatched[1].x = dispatched[2].x /\ dispatched[1].y = dispatched[2].y
    /\ invoked # <<>>

\* ------------------------------------------------------ claims C11 .. C20
\* C11: contains(px, py) is true exactly when the point lies between the left and
\* right edge and between the top and bottom edge, a point on any of the four
\* edges counting as inside and a point beyond any edge as outside.
C11_ContainsIsInclusive ==
    probe.asked =>
        LET left == geom.x
            right == geom.x + geom.w
            top == geom.y
            bottom == geom.y + geom.h
            beyond == \/ probe.px < left \/ probe.px > right
                      \/ probe.py < top \/ probe.py > bottom
        IN  /\ probe.inside = ~beyond
            /\ (probe.px \in {left, right} /\ probe.py \in top..bottom) => probe.inside
            /\ (probe.py \in {top, bottom} /\ probe.px \in left..right) => probe.inside

\* a point on the right and bottom edge of a geometry of positive size is inside
C11_Witness ==
    /\ probe.asked /\ probe.inside
    /\ geom.w > 0 /\ geom.h > 0
    /\ probe.px = geom.x + geom.w /\ probe.py = geom.y + geom.h

\* the declared capacity of the queue's two lists (Vec::with_capacity)
VerticesCapacity == 1024
IndicesCapacity == 1536

\* C12: after n pushes since the latest clear the queue holds 4n vertices and 6n
\* indices, and the six indices of the latest primitive, primitive n - 1, are
\* (4i, 4i+1, 4i+2, 4i+2, 4i+1, 4i+3) with i = n - 1, for any number n of pushes.
C12_PushesAreWholeQuads ==
    /\ render_queue.vertices_len = 4 * pushed
    /\ render_queue.indices_len = 6 * pushed
    /\ pushed > 0 =>
          LET i == pushed - 1
          IN  render_queue.indices_tail =
                 <<4 * i, 4 * i + 1, 4 * i + 2, 4 * i + 2, 4 * i + 1, 4 * i + 3>>

\* C13 as stated: the queue's vertex and index counts never exceed the capacity the
\* queue declares.
C13_QueueWithinDeclaredCapacity ==
    /\ render_queue.vertices_len <= VerticesCapacity
    /\ render_queue.indices_len <= IndicesCapacity

\* C13, amended: the queue keeps every pushed primitive (4 vertices and 6 indices
\* per push, whatever its declared capacity), and the cut is made by the batch
\* upload, which never writes more vertices or indices than the two batch buffers
\* hold.
C13_UploadWithinBufferCapacity ==
    /\ render_queue.vertices_len = 4 * pushed
    /\ render_queue.indices_len = 6 * pushed
    /\ submitted.uploaded =>
          /\ submitted.v_data <= VertexBufferLen
          /\ submitted.i_data <= IndexBufferLen
          /\ submitted.drawn <= IndexBufferLen

\* an upload from a queue that holds more than the vertex buffer does
C13_Witness ==
    /\ submitted.uploaded
    /\ render_queue.vertices_len > VertexBufferLen
    /\ render_queue.vertices_len > VerticesCapacity
    /\ submitted.v_data = VertexBufferLen

\* C14: pushing beyond the vertex capacity of the batch never panics, and of n
\* pushed primitives exactly the first min(n, capacity / 4) are uploaded and
\* drawn: their 4 vertices and 6 indices each, and nothing of a later primitive.
C14_OverflowDropsTheExcess ==
    /\ ~panicked
    /\ submitted.uploaded =>
          LET kept == Min(pushed, VertexBufferLen \div 4)
          IN  /\ submitted.v_data = 4 * kept
              /\ submitted.i_data = 6 * kept
              /\ submitted.drawn = 6 * kept

\* an upload after more pushes than the batch holds
C14_Witness ==
    /\ submitted.uploaded
    /\ pushed > VertexBufferLen \div 4
    /\ submitted.drawn = 6 * (VertexBufferLen \div 4)

\* the primitives one frame pushes for the tree: an outline of four rectangles
\* for each node, and the background of each button
FramePrimitives == 4 * Cardinality(Widgets) + Cardinality(Buttons)

\* C15: the queue is cleared when a frame begins: before the first frame it is
\* empty, and after any number of frames it holds exactly the primitives the latest
\* frame's prepare pass pushed, none of an earlier frame.
C15_QueueHoldsOnlyLatestFrame ==
    /\ frames = 0 => render_queue.vertices_len = 0 /\ render_queue.indices_len = 0
    /\ frames > 0 =>
          /\ pushed = FramePrimitives
          /\ render_queue.vertices_len = 4 * pushed
          /\ render_queue.indices_len = 6 * pushed

\* a second frame has been drawn
C15_Witness ==
    /\ frames = 2
    /\ lastInput = "RedrawRequested"
    /\ render_queue.vertices_len = 4 * FramePrimitives

\* a sequence without its consecutive repetitions
RECURSIVE Dedup(_)
Dedup(q) ==
    IF Len(q) <= 1 THEN q
    ELSE IF q[Len(q)] = q[Len(q) - 1] THEN Dedup(Front(q))
    ELSE Append(Dedup(Front(q)), q[Len(q)])

\* C16: over any sequence of prepare calls on a Text node, a prepare shapes exactly
\* when the text differs from the text of the latest shape (or nothing was shaped
\* yet): the texts shaped, in order, are the texts prepared, in order, with
\* consecutive repetitions dropped.
C16_ShapesOnlyOnTextChange ==
    /\ shapeLog = Dedup(prepLog)
    /\ Len(shapeLog) <= Len(prepLog)

\* prepared with "a" twice and then with "b": shaped once for "a", once for "b"
C16_Witness ==
    /\ prepLog = <<"a", "a", "b">>
    /\ shapeLog = <<"a", "b">>

\* the colour of the background a button pushed in the latest prepare pass
DrawnBy(b) == {i \in 1..Len(drawn) : drawn[i].by = b}
DrawnColor(b) == drawn[CHOOSE i \in DrawnBy(b) : TRUE].vertices[1].color

\* the latest call into the tree was a prepare pass, and it completed
PreparePassDone ==
    /\ ~panicked
    /\ visits # <<>>
    /\ visits[1].pass = "prepare"

\* C17: a prepare pass draws each button's background once, in the pressed colour
\* when pressed (hovered or not), in the hovered colour when only hovered, in the
\* idle colour when neither.
C17_ButtonColorPriority ==
    PreparePassDone =>
        \A b \in Buttons :
            /\ Cardinality(DrawnBy(b)) = 1
            /\ (pressed[b] /\ hovered[b]) => DrawnColor(b) = ButtonPressedColor
            /\ (pressed[b] /\ ~hovered[b]) => DrawnColor(b) = ButtonPressedColor
            /\ (~pressed[b] /\ hovered[b]) => DrawnColor(b) = ButtonHoveredColor
            /\ (~pressed[b] /\ ~hovered[b]) => DrawnColor(b) = ButtonIdleColor

\* a button both pressed and hovered drawn in the pressed colour, next to a button
\* that is only hovered
C17_Witness ==
    /\ PreparePassDone
    /\ \E b \in Buttons, c \in Buttons :
          /\ pressed[b] /\ hovered[b] /\ DrawnColor(b) = ButtonPressedColor
          /\ ~pressed[c] /\ hovered[c] /\ DrawnColor(c) = ButtonHoveredColor

\* C18: a Column hands every event to every child, in declaration order, wherever
\* the point lies: a click runs the callback of every button that holds the point,
\* in declaration order, also when an earlier button holds it too; a move sets the
\* hover state of every button; a press reaches every button under the point and a
\* release reaches every button.
C18_ColumnForwardsToEveryChild ==
    LET Inside(b) == b \in hit
    IN  /\ lastInput = "MouseClick" => invoked = SelectSeq(Children(Root), Inside)
        /\ lastInput = "MouseMove" => \A b \in Buttons : hovered[b] = (b \in hit)
        /\ lastInput = "MouseDown" => \A b \in hit : pressed[b]
        /\ lastInput = "MouseUp" => \A b \in Buttons : ~pressed[b]

\* one click inside two overlapping buttons ran both callbacks
C18_Witness ==
    /\ lastInput = "MouseClick"
    /\ hit = {2, 4}
    /\ invoked = <<2, 4>>

\* a node's absolute geometry: the engine boxes summed from the root down
AbsGeometry(w) ==
    [x |-> AbsX(w), y |-> AbsY(w), w |-> taffy[node_id[w]].w, h |-> taffy[node_id[w]].h]
ParentGeometry(w) == IF w = Root THEN RootGeometry ELSE AbsGeometry(Parent(w))
\* the rectangle a queue entry covers
DrawnRect(i) ==
    [x |-> drawn[i].vertices[1].rect_pos[1], y |-> drawn[i].vertices[1].rect_pos[2],
     w |-> drawn[i].vertices[1].rect_size[1], h |-> drawn[i].vertices[1].rect_size[2]]

\* every node a pass other than render entered was handed its parent's absolute
\* geometry and worked with its own, and a button drew its own absolute geometry
ResolvingPassesAgree ==
    LaidOut =>
        /\ \A i \in 1..Len(visits) :
              visits[i].pass # "render" =>
                  /\ visits[i].handed = ParentGeometry(visits[i].node)
                  /\ visits[i].used = AbsGeometry(visits[i].node)
        /\ \A i \in 1..Len(drawn) : DrawnRect(i) = AbsGeometry(drawn[i].by)

\* C19: once the tree is laid out, in each of the four passes every node entered
\* is handed its parent's absolute geometry and works with parent origin + its own
\* box, and the rectangle a button draws is the rectangle it hit-tests.
C19_FourPassesResolveAlike ==
    LaidOut =>
        /\ \A i \in 1..Len(visits) :
              /\ visits[i].handed = ParentGeometry(visits[i].node)
              /\ visits[i].used = AbsGeometry(visits[i].node)
        /\ \A i \in 1..Len(drawn) : DrawnRect(i) = AbsGeometry(drawn[i].by)

\* a pass that resolves geometry, called on a tree or a node without a handle
UnlaidPass ==
    /\ node_id[Root] = 0
    /\ \/ \E ev \in PassEvents : PEvent(ev)
       \/ \E b \in Buttons, ev \in Events : WButtonEvent(b, ev)
       \/ WPrepare
       \/ WCollectTextAreas

\* C20: a pass that resolves a node's geometry before layout gave the node a handle
\* panics and does nothing else: nothing is pushed, no node is entered, no hover or
\* press state changes, no callback runs, no text is shaped or collected.
C20_UnlaidPassOnlyPanics ==
    [][UnlaidPass =>
          /\ panicked'
          /\ visits' = <<>> /\ drawn' = <<>> /\ invoked' = <<>> /\ text_areas' = <<>>
          /\ UNCHANGED <<render_queue, pushed, hovered, pressed, clicks, last_text,
                         buffer, node_id, taffy>>]_vars

\* a prepare pass and a button's handle_event have panicked before any layout
C20_Witness ==
    /\ panicked
    /\ node_id[Root] = 0
    /\ lastInput \in {"Prepare", "ButtonEvent"}
    /\ render_queue.vertices_len = 0

\* ------------------------------------------------------ claims C21 .. C30
\* the shape selector the specification gives to each shape
ShapeSelector(k) ==
    CASE k = "Rect" -> 0
      [] k = "RoundedRect" -> 1
      [] k = "Circle" -> 2

\* what the latest, completed prepare of a shape left in the queue
ShapePrepared ==
    LET k == visits[1].node
        box == taffy[shapes[k].node_id]
        handed == visits[1].handed
    IN  /\ Len(drawn) = 1
        /\ drawn[1].indices = render_queue.indices_tail
        /\ drawn[1].vertices = render_queue.vertices_tail
        /\ DrawnRect(1) = [x |-> handed.x + box.x, y |-> handed.y + box.y,
                           w |-> box.w, h |-> box.h]
        /\ \A j \in 1..4 :
              /\ drawn[1].vertices[j].shape_type = ShapeSelector(k)
              /\ drawn[1].vertices[j].color = shapes[k].color
              /\ k = "RoundedRect" =>
                    drawn[1].vertices[j].corner_radius = shapes[k].radius

\* C21: every completed prepare of a Rect, Circle or RoundedRect pushes exactly one
\* primitive (4 vertices, 6 indices), with shape selector 0 for Rect, 2 for Circle
\* and 1 and the node's radius for RoundedRect, in the node's colour, covering the
\* parent origin + the node's box; a handle_event call on one of them changes no
\* widget, no queue and no layout state, whatever the event, laid out or not.
C21_ShapesPushOnePrimitive ==
    [][/\ (lastInput' = "ShapePrepare" /\ ~panicked') =>
             /\ pushed' = pushed + 1
             /\ render_queue'.vertices_len = render_queue.vertices_len + 4
             /\ render_queue'.indices_len = render_queue.indices_len + 6
             /\ ShapePrepared'
       /\ lastInput' = "ShapeEvent" =>
             /\ ~panicked'
             /\ invoked' = <<>>
             /\ UNCHANGED <<shapes, render_queue, pushed, node_id, taffy, hovered,
                            pressed, clicks, textVars>>]_vars

\* two shapes prepared in one behaviour, the latest a RoundedRect away from the
\* origin with the radius it was given
C21_Witness ==
    /\ lastInput = "ShapePrepare" /\ ~panicked
    /\ pushed >= 2
    /\ visits[1].node = "RoundedRect"
    /\ DrawnRect(1).x > 0
    /\ drawn[1].vertices[1].corner_radius = 4

\* the handles the latest update_layout assigned: the newest nodes of the engine,
\* one for each widget
FreshHandles == (Len(taffy) - Cardinality(Widgets) + 1)..Len(taffy)

\* C22: the frame driver never panics on a missing handle; before resumed has laid
\* the tree out nothing is dispatched to it and no frame is drawn; from then on
\* every node holds a handle of the latest layout run, the driver's root handle is
\* the root node's, every such handle has the box the engine computed in that run,
\* and the layout has run once at resume and once more for every accepted resize.
C22_LayoutBeforeEveryPass ==
    /\ ~panicked
    /\ appState = "Idle" => dispatched = <<>> /\ frames = 0 /\ taffy = <<>>
    /\ appState = "Running" =>
          /\ \A w \in Widgets : node_id[w] \in FreshHandles
          /\ \A w, v \in Widgets : node_id[w] = node_id[v] => w = v
          /\ root_node = node_id[Root]
          /\ \E lay \in LayoutResults : \A w \in Widgets : taffy[node_id[w]] = lay[w]
          /\ Len(taffy) = Cardinality(Widgets) * (1 + resizes)

\* a second frame drawn, and an event dispatched, after an accepted resize
C22_Witness ==
    /\ resizes >= 1
    /\ frames = 2
    /\ lastInput = "Pressed"
    /\ Len(dispatched) = 2
    /\ invoked # <<>>
    /\ node_id[Root] > Cardinality(Widgets)

\* the place of a step in the latest frame, 0 if the frame did not run it
StepAt(step) ==
    IF \E i \in 1..Len(frame_passes) : frame_passes[i] = step
    THEN CHOOSE i \in 1..Len(frame_passes) : frame_passes[i] = step
    ELSE 0

\* the steps a frame does run keep their order: prepare, text collection, upload,
\* submit, present; and a frame leaves the layout as it found it
FramePassOrder ==
    frames > 0 =>
        /\ 0 < StepAt("prepare")
        /\ StepAt("prepare") < StepAt("collect_text_areas")
        /\ StepAt("collect_text_areas") < StepAt("upload")
        /\ StepAt("upload") < StepAt("submit")
        /\ StepAt("submit") < StepAt("present")
FrameLeavesLayout ==
    [][lastInput' = "RedrawRequested" => UNCHANGED <<node_id, taffy, root_node>>]_vars

\* C23: every frame the driver has drawn ran layout, prepare, text collection,
\* submit and present in this order: layout within the frame and before its
\* prepare, and text collection after prepare.
C23_FrameRunsLayoutThenPasses ==
    frames > 0 =>
        /\ 0 < StepAt("layout")
        /\ StepAt("layout") < StepAt("prepare")
        /\ StepAt("prepare") < StepAt("collect_text_areas")
        /\ StepAt("collect_text_areas") < StepAt("submit")
        /\ StepAt("submit") < StepAt("present")

\* C24: Signal.update (its commit and every turn of its notification) leaves
\* the frame driver's dirty flag, the redraw request and the frames drawn as they
\* were; dirty goes from false to true only in resumed, in a Resized of non-zero
\* size, in CursorMoved or in a left-button MouseInput; and a RedrawRequested
\* that finds dirty false draws no frame, so a signal updated after a frame
\* leads to no new one.
StoreStep == hist' # hist \/ stack' # stack \/ fired' # fired
DirtySetters == {"Resumed", "Resized", "CursorMoved", "Pressed", "Released"}
C24_SignalUpdateNeverDirties ==
    [][/\ StoreStep => UNCHANGED <<appVars, frames, submitted, frame_passes>>
       /\ (~dirty /\ dirty') =>
             /\ lastInput' \in DirtySetters
             /\ lastInput' = "Resized" => resizes' = resizes + 1
       /\ frames' # frames => dirty /\ ~StoreStep]_vars

\* an update is in progress after a frame was presented, with no frame pending
C24_Witness ==
    /\ stack # <<>>
    /\ value["A"] # initial["A"]
    /\ frames >= 1
    /\ ~dirty
    /\ ~redraw_requested

\* C25: a lifecycle hook the frame driver invokes on the root is called on every
\* node of the tree, each Button's internal Text included, exactly once, and
\* the children of one parent receive it in their declaration order.
Hooks == {"on_init", "on_mount", "on_update", "on_unmount"}
HookCalls(hook) ==
    LET Test(e) == e[1] = hook
    IN  SelectSeq(hooked, Test)
HookPosition(hook, w) ==
    CHOOSE i \in 1..Len(HookCalls(hook)) : HookCalls(hook)[i][2] = w
C25_HookReachesEveryNodeOnce ==
    /\ appState = "Running" => hooked # <<>>
    /\ \A hook \in Hooks :
         HookCalls(hook) # <<>> =>
           /\ \A w \in Widgets :
                Cardinality({i \in 1..Len(HookCalls(hook)) :
                               HookCalls(hook)[i][2] = w}) = 1
           /\ \A p \in Widgets : \A i, j \in 1..Len(Children(p)) :
                i < j => HookPosition(hook, Children(p)[i])
                           < HookPosition(hook, Children(p)[j])

\* a frame has delivered on_update through the tree, down to the last Text
C25_Witness ==
    /\ lastInput = "RedrawRequested"
    /\ frames >= 1
    /\ Len(HookCalls("on_update")) = Cardinality(Widgets)
    /\ \E i \in 1..Len(hooked) : hooked[i] = <<"on_update", TextView(4)>>

\* C26: when a listener of one store has called update on another store, the
\* other store's value is committed (it is the fold of every mutator given to
\* it, the listener's last) and each of its listeners has run after that
\* listener and seen the committed value, by the time the first store's
\* notification takes its next turn: its next listener, or its return.
LastFired(id) ==
    CHOOSE q \in 1..Len(fired) :
        /\ fired[q][1] = id
        /\ \A r \in (q + 1)..Len(fired) : fired[r][1] # id
\* the innermost notification is about to take a turn and the listener of its
\* previous turn updated another store
AfterNestedUpdate ==
    /\ stack # <<>>
    /\ ~panicked
    /\ stack[Len(stack)].idx >= 2
    /\ LET top == stack[Len(stack)]
           l == listeners[top.sig][top.idx - 1]
       IN  l.kind = "upd" /\ l.to # top.sig
NestedUpdateDone ==
    LET top == stack[Len(stack)]
        l == listeners[top.sig][top.idx - 1]
        b == l.to
    IN  /\ hist[b] # <<>>
        /\ hist[b][Len(hist[b])] = l.fn
        /\ value[b] = Fold(hist[b], initial[b])
        /\ \A i \in 1..Len(listeners[b]) :
             \E q \in (LastFired(l.id) + 1)..Len(fired) :
                fired[q][1] = listeners[b][i].id /\ fired[q][2] = value[b]
C26_NestedUpdateRunsToCompletion ==
    [][(AfterNestedUpdate /\ stack' # stack) => NestedUpdateDone]_vars

\* A's update has returned after its listener updated B, which has a listener
C26_Witness ==
    /\ UpdateReturned
    /\ cur.sig = "A"
    /\ \E i \in 1..Len(listeners["A"]) :
         /\ listeners["A"][i].kind = "upd"
         /\ listeners["A"][i].to = "B"
         /\ i < Len(listeners["A"])
    /\ listeners["B"] # <<>>
    /\ Len(fired) = 3
    /\ value["B"] = 1

\* C27: an update whose signal reaches no cycle of listeners that update
\* signals returns, after at most n + n * n listener invocations for n listeners
\* and with no more notifications nested than there are signals; an update
\* whose signal reaches a cycle (a listener of A updates B and one of B updates
\* A, or a listener of A updates A) never returns: the notifications nest until
\* the stack is exhausted.
Updates(s, t) ==
    \E i \in 1..Len(listeners[s]) :
        listeners[s][i].kind = "upd" /\ listeners[s][i].to = t
RECURSIVE UpdatedWithin(_, _)
UpdatedWithin(S, n) ==
    IF n = 0 THEN S
    ELSE UpdatedWithin(S \cup {t \in DOMAIN value : \E s \in S : Updates(s, t)}, n - 1)
\* the signals an update of s leads to updating
UpdatedFrom(s) ==
    UpdatedWithin({t \in DOMAIN value : Updates(s, t)}, Cardinality(DOMAIN value))
ReachesCycle(s) == \E t \in {s} \cup UpdatedFrom(s) : t \in UpdatedFrom(t)
UpdateRunning == stack # <<>> /\ ~panicked
C27_UpdateTerminatesUnlessCyclic ==
    /\ (UpdateRunning /\ ~ReachesCycle(stack[1].sig)) ~> Idle
    /\ []((stack # <<>> /\ ~ReachesCycle(stack[1].sig)) =>
            /\ ~panicked
            /\ Len(stack) <= Cardinality(DOMAIN value)
            /\ Len(fired) <= NumListeners + NumListeners * NumListeners)
    /\ [][(stack # <<>> /\ ReachesCycle(stack[1].sig)) => stack' # <<>>]_vars
    /\ (UpdateRunning /\ ReachesCycle(stack[1].sig)) ~> (panicked /\ Len(stack) = MaxDepth)

\* an update of A, whose listener updates B, whose listener updates A, has
\* nested until the stack was exhausted
C27_Witness ==
    /\ panicked
    /\ Len(stack) = MaxDepth
    /\ stack[1].sig = "A"
    /\ Updates("A", "B")
    /\ Updates("B", "A")
    /\ ~Updates("A", "A")
    /\ ~Updates("B", "B")

\* C28: a RedrawRequested that finds dirty false delivers no on_update, leaves
\* the queue, the text areas, the upload and the frame count as they were, and
\* leaves dirty false; a RedrawRequested that completes a frame ends with
\* present and sets dirty false; and dirty goes from false to true only in a
\* dirty-setting handler, so between two presented frames at least one of them
\* ran.
FrameState == <<lifecycle, hooked, frame_passes, render_queue, pushed, submitted,
                text_areas, last_text, buffer, frames, dirty>>
C28_CleanRedrawDoesNothing ==
    [][/\ (lastInput' = "RedrawRequested" /\ ~dirty) => UNCHANGED FrameState
       /\ (lastInput' = "RedrawRequested" /\ dirty /\ appState = "Running"
             /\ ~panicked') =>
             /\ ~dirty'
             /\ frame_passes'[Len(frame_passes')] = "present"
             /\ frames' = Min(frames + 1, 2)
       /\ frames' # frames => dirty /\ lastInput' = "RedrawRequested"
       /\ (~dirty /\ dirty') => lastInput' \in DirtySetters]_vars

\* the one frame was drawn at the first size; the window then shrank to nothing
\* (not a dirty-setting event) and the RedrawRequested after it drew nothing
C28_Witness ==
    /\ lastInput = "RedrawRequested"
    /\ ~dirty
    /\ frames = 1
    /\ winSize = <<0, 0>>
    /\ text_areas # <<>>
    /\ text_areas[Len(text_areas)].bounds.right = MaxCoord

\* C29: of the hooks delivered to the root view, on_init comes first and
\* on_mount second, neither comes again however often resumed is reported, every
\* on_update comes after both, and on_unmount comes only after on_mount; a
\* running application has delivered both on_init and on_mount.
Delivery(hook) == {i \in 1..Len(lifecycle) : lifecycle[i] = hook}
C29_ExitedAfterMount ==
    /\ control = "Exited"
    /\ lifecycle = <<"on_init", "on_mount", "on_update", "on_unmount">>
    /\ frames >= 1

SubscribedAt(id) ==
    CHOOSE i \in 1..Len(subscribed[cur.sig]) : subscribed[cur.sig][i] = id
ListenerWith(id) ==
    CHOOSE l \in Range(listeners[cur.sig]) : l.id = id
C30_MemoSeenByListenerOrder ==
    cur.sig # "none" =>
      \A i \in 1..Len(fired) :
         ListenerWith(fired[i][1]).kind = "obs" =>
           /\ fired[i][2] = NewValue
           /\ \A m \in DOMAIN fired[i][3] :
                fired[i][3][m] =
                  Derive(ListenerWith(m).fn,
                         IF SubscribedAt(m) < SubscribedAt(fired[i][1])
                         THEN NewValue ELSE OldValue)

\* one update ran a listener subscribed before the memo and one subscribed after
\* it, and they saw different values of the memo
C30_Witness ==
    /\ UpdateReturned
    /\ Len(fired) = 3
    /\ ListenerWith(fired[1][1]).kind = "obs"
    /\ ListenerWith(fired[2][1]).kind = "memo"
    /\ ListenerWith(fired[3][1]).kind = "obs"
    /\ fired[1][3][fired[2][1]] = Derive(ListenerWith(fired[2][1]).fn, OldValue)
    /\ fired[3][3][fired[2][1]] = Derive(ListenerWith(fired[2][1]).fn, NewValue)
    /\ fired[1][3] # fired[3][3]
    /\ fired[1][2] = NewValue

\* C31: a Computed made by create_computed holds the value its closure gave at
\* creation, whatever updates its signal has had since, and get() returns that
\* value; creating it adds no listener to any signal, and no update, notification
\* or subscription changes it.
ValueAtCreation(c) ==
    Derive(c.fn, Fold(SubSeq(hist[c.sig], 1, c.made), initial[c.sig]))
C31_ComputedIsEvaluatedOnce ==
    /\ [](/\ \A i \in 1..Len(computed) : computed[i].val = ValueAtCreation(computed[i])
          /\ cgot.cell # 0 => cgot.v = ValueAtCreation(computed[cgot.cell]))
    /\ [][/\ computed' # computed =>
               /\ listeners' = listeners
               /\ subscribed' = subscribed
               /\ SubSeq(computed', 1, Len(computed)) = computed
          /\ (hist' # hist \/ stack' # stack \/ listeners' # listeners) =>
               computed' = computed]_vars

\* a get() made after an update that ran a listener returns the value of
\* creation, which is no longer what the closure would give
C31_Witness ==
    /\ UpdateReturned
    /\ fired # <<>>
    /\ cgot.cell # 0
    /\ cgot.n > computed[cgot.cell].made
    /\ cgot.n = Len(hist[computed[cgot.cell].sig])
    /\ cgot.v # Derive(computed[cgot.cell].fn, value[computed[cgot.cell].sig])

\* C32: while a notification of a signal is running no step changes that
\* signal's listener list; a listener that calls subscribe on a signal being
\* notified panics and nothing is appended; and the listeners of the updated
\* signal that an update invokes are among those subscribed when it began, all
\* of them once it has returned.
BeingNotified == {stack[i].sig : i \in 1..Len(stack)}
\* the innermost notification's next listener subscribes to a signal being notified
ReentrantSubscribeNext ==
    /\ stack # <<>>
    /\ ~panicked
    /\ LET top == stack[Len(stack)]
       IN  /\ top.idx <= Len(listeners[top.sig])
           /\ listeners[top.sig][top.idx].kind = "sub"
           /\ listeners[top.sig][top.idx].to \in BeingNotified
ListenerIds(s) == {listeners[s][i].id : i \in 1..Len(listeners[s])}
ListenerOrder(s) == [i \in 1..Len(listeners[s]) |-> listeners[s][i].id]
C32_NoSubscribeDuringNotify ==
    /\ [][/\ \A s \in BeingNotified : listeners'[s] = listeners[s]
          /\ ReentrantSubscribeNext =>
                panicked' /\ listeners' = listeners /\ subscribed' = subscribed]_vars
    /\ [](cur.sig # "none" =>
            /\ Range(Ids(fired)) \cap ListenerIds(cur.sig) \subseteq Range(cur.subs)
            /\ stack # <<>> => ListenerOrder(cur.sig) = cur.subs
            /\ UpdateReturned => Range(cur.subs) \subseteq Range(Ids(fired)))

\* after one listener of A had run, the next called subscribe on A and panicked
C32_Witness ==
    /\ panicked
    /\ stack # <<>>
    /\ fired # <<>>
    /\ LET top == stack[Len(stack)]
       IN  /\ top.sig = "A"
           /\ top.idx <= Len(listeners["A"])
           /\ listeners["A"][top.idx].kind = "sub"
           /\ listeners["A"][top.idx].to = "A"
    /\ ListenerOrder("A") = cur.subs

\* a listener of A subscribed a listener to B, which no notification held
C32_SubscribedElsewhere ==
    /\ UpdateReturned
    /\ listeners["A"] # <<>>
    /\ listeners["A"][1].kind = "sub"
    /\ listeners["A"][1].to = "B"
    /\ Len(listeners["B"]) = 1
    /\ listeners["B"][1].id \notin Range(Ids(fired))

\* C33: of what an upload writes to the two batch buffers, every index is
\* smaller than the number of vertices written, and the indices written and
\* drawn are whole primitives, six each, for any number of pushes.
C33_UploadedIndicesInRange ==
    submitted.uploaded =>
       /\ submitted.max_index >= 0
       /\ submitted.max_index < submitted.v_data
       /\ submitted.i_data % 6 = 0
       /\ submitted.drawn = submitted.i_data
       /\ 4 * (submitted.i_data \div 6) = submitted.v_data

\* an upload from a queue whose latest primitive starts at index 0 again: more
\* than 65536 vertices pushed, the first 16384 written
C33_Witness ==
    /\ submitted.uploaded
    /\ render_queue.vertices_len > 2 ^ 16
    /\ render_queue.indices_tail[1] = 0
    /\ submitted.v_data = VertexBufferLen
    /\ submitted.i_data = IndexBufferLen
    /\ submitted.max_index = VertexBufferLen - 1

\* C34: for any number of pushes the queue's vertex count is a multiple of 4,
\* the start index the next push takes from it (its low 16 bits) is a multiple of
\* 4 and at most 65532, so that start + 3 is at most 65535; no addition of the
\* latest push left the 16-bit range, its six indices are its start index plus
\* 0, 1, 2, 2, 1, 3, and no push has panicked.
C34_IndexArithmeticInRange ==
    /\ ~panicked
    /\ render_queue.vertices_len % 4 = 0
    /\ AsU16(render_queue.vertices_len) % 4 = 0
    /\ AsU16(render_queue.vertices_len) + 3 <= 2 ^ 16 - 1
    /\ ~render_queue.overflow
    /\ pushed > 0 =>
          LET start == render_queue.indices_tail[1]
          IN  /\ start = AsU16(render_queue.vertices_len - 4)
              /\ start % 4 = 0
              /\ render_queue.indices_tail =
                    <<start, start + 1, start + 2, start + 2, start + 1, start + 3>>

\* the push with the largest start index, 65532, whose last index is 65535, has
\* been followed by one more
C34_Witness ==
    /\ render_queue.vertices_len = 2 ^ 16 + 4
    /\ render_queue.indices_tail[1] = 0
    /\ render_queue.indices_tail[6] = 3
    /\ ~render_queue.overflow
    /\ ~panicked

====
